--------------------------- MODULE ConnectionPool ---------------------------
(***************************************************************************)
(* The connection pool and its sessions, handler by handler:               *)
(* src/src/web/async_connection_pool.{hpp,cpp}, web_socket_session.{hpp,   *)
(* cpp}, and connection_manager.hpp.                                       *)
(*                                                                         *)
(* Three kinds of actors.  The main thread makes the sessions, borrows     *)
(* them, waits for their connections, writes, reads, and in the end        *)
(* destroys them.  The workers execute in ctx_.run() the handlers of       *)
(* operations that have ended.  The operations themselves (resolving,      *)
(* connecting, shaking hands, writing, closing) belong to the network and  *)
(* to the library; how they end is left open.                              *)
(*                                                                         *)
(* Handlers hold their session by a raw this, and a write holds its text   *)
(* by reference: what outlives what is the subject of this module.         *)
(***************************************************************************)
EXTENDS Naturals, Sequences, FiniteSets, SequencesExt

CONSTANTS PoolSize,     \* 4 in the code: sessions made, and capacity of the queue
          NumWorkers,   \* 4 in the code: threads that run ctx_.run()
          Sizes,        \* what texts there are: "short" fits a frame, "long" needs two
          Faults        \* what may go wrong in the network

Sessions  == 1 .. PoolSize
NoSession == 0

ASSUME PoolAssumption ==
    /\ PoolSize \in Nat \ {0} /\ NumWorkers \in Nat \ {0}
    /\ Sizes \subseteq {"short", "long"}
    /\ Faults \subseteq {"refuse", "drop"}

VARIABLES
    pc,         \* what the main thread is doing
    made,       \* sessions made by the constructor so far
    cur,        \* the session of the borrow() or request() in progress
    links,      \* sessions the client holds a link to
    avail,      \* available_pool_, oldest first
    work,       \* work_ keeps the workers in ctx_.run()
    notifying,  \* sessions whose on_handshake a worker is in the middle of
    left,       \* number of workers that have returned from ctx_.run()
    op,         \* operation of a session's connect chain that is under way
    ended,      \* how that operation ended, before its handler runs
    connected,  \* is_connected_
    writes,     \* write operations of a session whose handler has not run, oldest first
    closing,    \* sessions with a close operation whose handler has not run
    broken,     \* sessions whose connection is gone
    gone,       \* sessions that were destroyed
    early,      \* ghost: sessions destroyed while their connect chain was under way
    touched     \* ghost: destroyed sessions that a handler has used

main   == <<pc, made, cur, links, avail, work>>
pool   == <<notifying, left>>
chain  == <<op, ended, connected>>
stream == <<writes, closing, broken>>
life   == <<gone, early, touched>>
vars   == <<main, pool, chain, stream, life>>

\* What the main thread may be doing.
Phases == {"making", "idle", "establish", "asleep", "linked", "perform",
           "stopping", "joining", "exit", "crashed"}
Borrowing == {"establish", "asleep", "linked", "perform"}

Operations == {"none", "resolve", "connect", "handshake", "over"}
Outcomes   == {"pending", "ok", "error"}

\* One async_write: the frames whose text is still to be read, whether every
\* frame read so far held what was rendered, and how it ended.
WriteOp == [unread : Nat, intact : BOOLEAN, ended : Outcomes]

MainOK ==
    /\ pc \in Phases
    /\ made \in 0 .. PoolSize /\ (pc = "making" => made < PoolSize)
    /\ cur \in Sessions \cup {NoSession}
    /\ pc # "crashed" => (cur # NoSession <=> pc \in Borrowing)
    /\ links \subseteq Sessions
    /\ avail \in Seq(Sessions) /\ work \in BOOLEAN
WorkersOK == notifying \subseteq Sessions /\ left \in 0 .. NumWorkers
ChainOK ==
    /\ op \in [Sessions -> Operations] /\ ended \in [Sessions -> Outcomes]
    /\ connected \in [Sessions -> BOOLEAN]
StreamOK ==
    /\ writes \in [Sessions -> Seq(WriteOp)]
    /\ closing \subseteq Sessions /\ broken \subseteq Sessions
LifeOK == gone \subseteq Sessions /\ early \subseteq Sessions /\ touched \subseteq Sessions

TypeOK == MainOK /\ WorkersOK /\ ChainOK /\ StreamOK /\ LifeOK

Init ==
    /\ pc = "making" /\ made = 0 /\ cur = NoSession /\ links = {}
    /\ avail = <<>> /\ work = TRUE
    /\ notifying = {} /\ left = 0
    /\ op = [s \in Sessions |-> "none"]
    /\ ended = [s \in Sessions |-> "pending"]
    /\ connected = [s \in Sessions |-> FALSE]
    /\ writes = [s \in Sessions |-> <<>>]
    /\ closing = {} /\ broken = {}
    /\ gone = {} /\ early = {} /\ touched = {}

-----------------------------------------------------------------------------
\* Definitions that start with Slip are what a maintainer could have written by
\* mistake in place of the definition after them; the specification uses none.

\* The constructor makes the sessions, each of which starts its connect chain
\* in its own constructor, and puts them into the queue.
Make ==
    /\ pc = "making"
    /\ made' = made + 1
    /\ avail' = Append(avail, made + 1)
    /\ op' = [op EXCEPT ![made + 1] = "resolve"]
    /\ pc' = IF made + 1 = PoolSize THEN "idle" ELSE "making"
    /\ UNCHANGED <<cur, links, work, pool, ended, connected, stream, life>>

\* borrow() dequeues the oldest session.
Borrow ==
    /\ pc = "idle" /\ avail # <<>>
    /\ cur' = Head(avail) /\ avail' = Tail(avail)
    /\ pc' = "establish"
    /\ UNCHANGED <<made, links, work, pool, chain, stream, life>>

SlipEstablished(s) == TRUE
Established(s) == connected[s]

\* is_connected_.wait(false): returns when the value is true, else sleeps until
\* somebody notifies, and looks again.
EnsureSleeps ==
    /\ pc = "establish" /\ ~Established(cur)
    /\ pc' = "asleep"
    /\ UNCHANGED <<made, cur, links, avail, work, pool, chain, stream, life>>

\* ConnectionLink() returns: the client holds a link.
EnsureReturns ==
    /\ pc = "establish" /\ Established(cur)
    /\ pc' = "linked" /\ links' = links \cup {cur}
    /\ UNCHANGED <<made, cur, avail, work, pool, chain, stream, life>>

Frames(size) == IF size = "short" THEN 1 ELSE 2

\* The library copies the first frame of the text before async_write returns,
\* unless another write has the stream.
UnreadAtFirst(size, queued) == IF queued THEN Frames(size) ELSE Frames(size) - 1

\* Bound: how many writes one session has under way, one of them waiting for the
\* stream.  The code would start a third; the main thread of the model waits.
MaxWrites == 2

\* ConnectionManager::request writes on the link it has just borrowed.
Write(size) ==
    /\ pc = "linked" /\ Established(cur) /\ Len(writes[cur]) < MaxWrites
    /\ writes' = [writes EXCEPT ![cur] =
                     Append(@, [unread |-> UnreadAtFirst(size, @ # <<>>),
                                intact |-> TRUE, ended |-> "pending"])]
    /\ pc' = "perform"
    /\ UNCHANGED <<made, cur, links, avail, work, pool, chain, closing, broken, life>>

\* The loan in progress is not over.
SlipLoanOver == UNCHANGED cur
LoanOver == cur' = NoSession

\* Request::perform returns, and the string with the text is destroyed.
PerformReturns ==
    /\ pc = "perform"
    /\ pc' = "idle" /\ LoanOver
    /\ UNCHANGED <<made, links, avail, work, pool, chain, stream, life>>

\* ~ConnectionLink(): the enqueue would wait for room.
GiveBack(s) ==
    /\ pc = "idle" /\ s \in links /\ Len(avail) < PoolSize
    /\ links' = links \ {s} /\ avail' = Append(avail, s)
    /\ UNCHANGED <<pc, made, cur, work, pool, chain, stream, life>>

ChainUnderWay(s) == op[s] # "over" \/ s \in notifying

\* The handlers keep their session alive.
SlipDestroyed(s) == UNCHANGED <<gone, early>>
\* The queue had the last pointer to the session.
Destroyed(s) == /\ gone' = gone \cup {s}
                /\ early' = IF ChainUnderWay(s) THEN early \cup {s} ELSE early

\* stop(): the deleter starts to close each session in the queue, oldest first,
\* and the pop destroys it.  No link is left when the pool is destroyed.
StopNext ==
    /\ (pc = "idle" /\ links = {}) \/ pc = "stopping"
    /\ avail # <<>>
    /\ closing' = closing \cup {Head(avail)}
    /\ Destroyed(Head(avail))
    /\ avail' = Tail(avail) /\ pc' = "stopping"
    /\ UNCHANGED <<made, cur, links, work, pool, chain, writes, broken, touched>>

SlipWorkReset == UNCHANGED work
WorkReset == work' = FALSE

\* ... and lets the workers go when they run out of work.
StopReturns ==
    /\ pc = "stopping" /\ avail = <<>>
    /\ WorkReset /\ pc' = "joining"
    /\ UNCHANGED <<made, cur, links, avail, pool, chain, stream, life>>

\* ~AsyncConnectionPool() joins the workers.
Join ==
    /\ pc = "joining" /\ left = NumWorkers
    /\ pc' = "exit"
    /\ UNCHANGED <<made, cur, links, avail, work, pool, chain, stream, life>>

-----------------------------------------------------------------------------
\* The operations.

Alive == pc \notin {"exit", "crashed"}
Pending(s) == op[s] \in {"resolve", "connect", "handshake"} /\ ended[s] = "pending"

OpEnds(s, how) ==
    /\ Alive /\ Pending(s)
    /\ ended' = [ended EXCEPT ![s] = how]
    /\ UNCHANGED <<main, pool, op, connected, stream, life>>
Succeeds(s) == s \notin gone /\ OpEnds(s, "ok")
Fails(s)    == "refuse" \in Faults /\ s \notin gone /\ OpEnds(s, "error")
\* The destructors of resolver and stream cancel what is pending.
Aborts(s)   == s \in gone /\ OpEnds(s, "error")

\* The text of the oldest write still exists.
TextAlive(s) == pc = "perform" /\ s = cur /\ Len(writes[s]) = 1

WriteGoesOn(s) == Alive /\ writes[s] # <<>> /\ Head(writes[s]).ended = "pending"
HeadBecomes(s, w) == writes' = [writes EXCEPT ![s] = <<w>> \o Tail(@)]

\* A worker takes the next frame out of the text; memory that was freed may
\* still hold it, or not.
TakesFrame(s) ==
    /\ WriteGoesOn(s) /\ s \notin gone \cup broken
    /\ LET w == Head(writes[s]) IN
       /\ w.unread > 0
       /\ \E kept \in BOOLEAN :
             /\ TextAlive(s) => kept
             /\ HeadBecomes(s, [w EXCEPT !.unread = @ - 1, !.intact = @ /\ kept])
    /\ UNCHANGED <<main, pool, chain, closing, broken, life>>

\* The message is complete.
Arrives(s) ==
    /\ WriteGoesOn(s) /\ s \notin gone \cup broken
    /\ LET w == Head(writes[s]) IN
       /\ w.unread = 0
       /\ HeadBecomes(s, [w EXCEPT !.ended = "ok"])
    /\ UNCHANGED <<main, pool, chain, closing, broken, life>>

WriteFails(s) ==
    /\ WriteGoesOn(s) /\ s \in gone \cup broken
    /\ HeadBecomes(s, [Head(writes[s]) EXCEPT !.ended = "error"])
    /\ UNCHANGED <<main, pool, chain, closing, broken, life>>

\* The connection breaks; nothing tells the session.
Breaks(s) ==
    /\ Alive /\ "drop" \in Faults
    /\ connected[s] /\ s \notin broken \cup gone
    /\ broken' = broken \cup {s}
    /\ UNCHANGED <<main, pool, chain, writes, closing, life>>

-----------------------------------------------------------------------------
\* The workers.  The handlers of a session never run at the same time: its
\* stream has a strand.

WorkerIsFree == Alive /\ Cardinality(notifying) + left < NumWorkers
CanRun(s) == WorkerIsFree /\ s \notin notifying

\* A handler uses a member of the session.
Touches(s) == touched' = IF s \in gone THEN touched \cup {s} ELSE touched
NotTouched == UNCHANGED touched

\* A handler of the chain: it starts the next operation, or, when its own has
\* failed, calls fail(), which does nothing, and the chain is over.
ChainStep(s, this, next) ==
    /\ CanRun(s) /\ op[s] = this /\ ended[s] # "pending"
    /\ ended' = [ended EXCEPT ![s] = "pending"]
    /\ \/ ended[s] = "ok" /\ op' = [op EXCEPT ![s] = next] /\ Touches(s)
       \/ ended[s] = "error" /\ op' = [op EXCEPT ![s] = "over"] /\ NotTouched
    /\ UNCHANGED <<main, gone, early, stream>>

OnResolve(s) == ChainStep(s, "resolve", "connect") /\ UNCHANGED <<pool, connected>>
OnConnect(s) == ChainStep(s, "connect", "handshake") /\ UNCHANGED <<pool, connected>>

\* on_handshake sets is_connected_ ...
OnHandshake(s) ==
    /\ ChainStep(s, "handshake", "over")
    /\ connected' = [connected EXCEPT ![s] = ended[s] = "ok"]
    /\ notifying' = IF ended[s] = "ok" THEN notifying \cup {s} ELSE notifying
    /\ UNCHANGED left

SlipWakes(s) == pc' = pc
Wakes(s) == pc' = IF pc = "asleep" /\ cur = s THEN "establish" ELSE pc

\* ... and then notifies: the main thread may have gone on in between.
NotifyAll(s) ==
    /\ Alive /\ s \in notifying
    /\ Touches(s) /\ Wakes(s)
    /\ notifying' = notifying \ {s}
    /\ UNCHANGED <<made, cur, links, avail, work, left, chain, stream, gone, early>>

\* The handler of a failed write tells the session.
SlipOnWriteUses(s) == Touches(s)
\* on_write only looks at the error code.
OnWriteUses(s) == NotTouched

OnWrite(s) ==
    /\ CanRun(s) /\ writes[s] # <<>> /\ Head(writes[s]).ended # "pending"
    /\ writes' = [writes EXCEPT ![s] = Tail(@)]
    /\ OnWriteUses(s)
    /\ UNCHANGED <<main, pool, chain, closing, broken, gone, early>>

\* The close ends, because its session is destroyed at the latest.
OnClose(s) ==
    /\ CanRun(s) /\ s \in closing
    /\ closing' = closing \ {s}
    /\ UNCHANGED <<main, pool, chain, writes, broken, life>>

\* stop() stops the context instead.
SlipOutOfWork == ~work
\* No guard, no operation and no handler that has not run.
OutOfWork == /\ ~work /\ closing = {}
             /\ \A s \in Sessions : ~ChainUnderWay(s) /\ writes[s] = <<>>

\* ctx_.run() returns, and with it worker_loop().
Leave ==
    /\ WorkerIsFree /\ OutOfWork
    /\ left' = left + 1
    /\ UNCHANGED <<main, notifying, chain, stream, life>>

\* What was touched may no longer be mapped, or hold something else.
Crash ==
    /\ Alive /\ touched # {}
    /\ pc' = "crashed"
    /\ UNCHANGED <<made, cur, links, avail, work, pool, chain, stream, life>>

-----------------------------------------------------------------------------
Main == \/ Make \/ Borrow \/ EnsureSleeps \/ EnsureReturns
        \/ \E size \in Sizes : Write(size)
        \/ PerformReturns
        \/ \E s \in Sessions : GiveBack(s)
        \/ StopNext \/ StopReturns \/ Join

Network == \E s \in Sessions : \/ Succeeds(s) \/ Fails(s) \/ Aborts(s)
                               \/ TakesFrame(s) \/ Arrives(s) \/ WriteFails(s) \/ Breaks(s)

Handler(s) == \/ OnResolve(s) \/ OnConnect(s) \/ OnHandshake(s) \/ NotifyAll(s)
              \/ OnWrite(s) \/ OnClose(s)

Worker == Leave \/ \E s \in Sessions : Handler(s)

Over == ~Alive /\ UNCHANGED vars

Next == Main \/ Network \/ Worker \/ Crash \/ Over

\* The main thread and the workers run whenever they can.  An operation of the
\* connect chain ends: resolving does, connecting and shaking hands have
\* timeouts.  A write on a connection that is gone or broken fails; one that
\* the server never takes may stay under way for ever.
Fairness ==
    /\ WF_vars(Main)
    /\ WF_vars(Leave)
    /\ \A s \in Sessions : /\ WF_vars(Handler(s))
                           /\ WF_vars(Succeeds(s) \/ Fails(s) \/ Aborts(s))
                           /\ WF_vars(WriteFails(s))

Spec == Init /\ [][Next]_vars /\ Fairness

-----------------------------------------------------------------------------
\* A handler that runs after its session was destroyed uses it only when the
\* connect chain of the session was still under way when stop() popped it.  That
\* use is what the code gets wrong, and nothing here excludes it: this is the
\* line around it.  Writes and closes under way are harmless at any time, and the
\* process never dies once every session has got to the end of its chain.
UsesOnlyLive == touched \subseteq early

\* The destructor of the pool comes back only when every session is destroyed
\* and every handler has run: none is left to run without its session or
\* without the context.
ExitIsClean ==
    pc = "exit" => /\ gone = Sessions /\ closing = {}
                   /\ \A s \in Sessions : ~ChainUnderWay(s) /\ writes[s] = <<>>

\* The pool keeps the promise of Lending; until the constructor is done, all its
\* sessions count as available.
Lender == INSTANCE Lending WITH
    free   <- IF pc = "making" THEN [s \in Sessions |-> s] ELSE avail,
    taken  <- IF pc \in {"establish", "asleep"} THEN cur ELSE NoSession,
    lent   <- links,
    up     <- {s \in Sessions : connected[s]},
    closed <- gone
ImplementsLending == Lender!Spec

\* Who waits for a connection gets it, unless the chain of this session failed:
\* no notification is lost between on_handshake and the wait.
ChainFailed(s) == op[s] = "over" /\ ~connected[s]
BorrowerProceeds ==
    pc \in {"establish", "asleep"} ~>
        pc = "linked" \/ \E s \in Sessions : s = cur /\ ChainFailed(s)

\* The destructor of the pool does not wait for ever, whatever connects, writes
\* and closes are under way, and even if the server takes no more data: it comes
\* back, unless a use of a destroyed session has killed the process before.
DestructorReturns == pc = "stopping" ~> ~Alive

-----------------------------------------------------------------------------
\* What the documentation says and the code does not do.

\* The messages that reached the server and whose handler has not run.
Reached(s) == {w \in ToSet(writes[s]) : w.ended = "ok"}

\* README.md:42 "a request to Clio that is described in the `request.json.j2`
\* template": the server receives what was rendered.
SentAsRendered == \A s \in Sessions : \A w \in Reached(s) : w.intact
=============================================================================
