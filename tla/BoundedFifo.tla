---------------------------- MODULE BoundedFifo ----------------------------
(***************************************************************************)
(* What util::AsyncQueue promises its callers, free of locks, condition    *)
(* variables and waiting: a first-in first-out queue of at most Capacity   *)
(* elements that can be stopped once and for all.  An element that went in *)
(* comes out exactly once: to one caller of dequeue, in order, or to the   *)
(* deleter when the queue stops.                                           *)
(***************************************************************************)
EXTENDS Naturals, Sequences, Functions

CONSTANTS Threads,    \* the callers
          Elements,   \* what the queue holds
          Capacity,   \* the constructor's capacity
          None        \* the empty std::optional

VARIABLES q,        \* the elements waiting, oldest first
          stopped,  \* stop() has been called
          deleted,  \* the elements handed to the deleter
          result    \* what each thread's latest dequeue() returned

vars == <<q, stopped, deleted, result>>

Init == /\ q = <<>>
        /\ stopped = FALSE
        /\ deleted = {}
        /\ result = [t \in Threads |-> None]

Put(e) == /\ ~stopped
          /\ Len(q) < Capacity
          /\ q' = Append(q, e)
          /\ UNCHANGED <<stopped, deleted, result>>

Take(t) == /\ ~stopped
           /\ q # <<>>
           /\ q' = Tail(q)
           /\ result' = [result EXCEPT ![t] = Head(q)]
           /\ UNCHANGED <<stopped, deleted>>

TakeNothing(t) == /\ stopped
                  /\ result' = [result EXCEPT ![t] = None]
                  /\ UNCHANGED <<q, stopped, deleted>>

Stop == /\ stopped' = TRUE
        /\ q' = <<>>
        /\ deleted' = deleted \cup Range(q)
        /\ UNCHANGED result

Next == \/ \E e \in Elements : Put(e)
        \/ \E t \in Threads : Take(t) \/ TakeNothing(t)
        \/ Stop

Spec == Init /\ [][Next]_vars
=============================================================================
