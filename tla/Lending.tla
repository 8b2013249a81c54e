------------------------------ MODULE Lending ------------------------------
(***************************************************************************)
(* What AsyncConnectionPool promises to its one client, the main thread    *)
(* (src/src/web/async_connection_pool.hpp): the sessions it made are taken *)
(* in the order in which they became available, one at a time; a session   *)
(* is lent only when it is connected, and to one link at a time; a link    *)
(* gives its session back to the end of the queue; and at the end, when    *)
(* nothing is lent, every session is closed.  How a session gets connected *)
(* and how the client waits for that is invisible.                         *)
(***************************************************************************)
EXTENDS Naturals, Sequences, Functions

CONSTANT PoolSize   \* the number of sessions

Sessions  == 1 .. PoolSize
NoSession == 0

VARIABLES free,    \* the sessions nobody uses, the next one to be taken first
          taken,   \* the session borrow() has taken and not yet lent
          lent,    \* the sessions that links hold
          up,      \* the sessions whose connection was established
          closed   \* the sessions that were closed

vars == <<free, taken, lent, up, closed>>

Init == /\ free = [s \in Sessions |-> s]
        /\ taken = NoSession
        /\ lent = {}
        /\ up = {}
        /\ closed = {}

Establish(s) == /\ up' = up \cup {s}
                /\ UNCHANGED <<free, taken, lent, closed>>

Take == /\ taken = NoSession /\ closed = {}
        /\ free # <<>>
        /\ taken' = Head(free)
        /\ free' = Tail(free)
        /\ UNCHANGED <<lent, up, closed>>

\* The session taken becomes a link; the variable the link is assigned to may
\* have held another one, whose session is available again.
Lend(old) == /\ taken \in up
             /\ old \in lent \cup {NoSession}
             /\ lent' = (lent \ {old}) \cup {taken}
             /\ free' = IF old = NoSession THEN free ELSE Append(free, old)
             /\ taken' = NoSession
             /\ UNCHANGED <<up, closed>>

GiveBack(s) == /\ s \in lent
               /\ lent' = lent \ {s}
               /\ free' = Append(free, s)
               /\ UNCHANGED <<taken, up, closed>>

\* The oldest n of the available sessions are closed, when all are available.
Close(n) == /\ lent = {} /\ taken = NoSession
            /\ closed' = closed \cup Range(SubSeq(free, 1, n))
            /\ free' = SubSeq(free, n + 1, Len(free))
            /\ UNCHANGED <<taken, lent, up>>

Next == \/ \E s \in Sessions : Establish(s) \/ GiveBack(s)
        \/ Take
        \/ \E old \in Sessions \cup {NoSession} : Lend(old)
        \/ \E n \in 1 .. Len(free) : Close(n)

Spec == Init /\ [][Next]_vars
=============================================================================
