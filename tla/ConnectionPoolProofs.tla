------------------------ MODULE ConnectionPoolProofs ------------------------
(***************************************************************************)
(* Proofs about ConnectionPool, for any number of sessions and workers:    *)
(* types, what the handlers may touch, what is left when the destructor    *)
(* has come back, and that the pool implements Lending.                    *)
(***************************************************************************)
EXTENDS ConnectionPool, TLAPS, FiniteSetTheorems, SequenceTheorems

USE PoolAssumption

LEMMA SessionFacts ==
    /\ NoSession \notin Sessions /\ IsFiniteSet(Sessions)
    /\ \A x : x \in Sessions <=> x \in Nat /\ 1 <= x /\ x <= PoolSize
<1>1. IsFiniteSet(1 .. PoolSize)  BY FS_Interval
<1> QED  BY <1>1 DEF Sessions, NoSession

\* Which steps move what.
MainStep == \/ Make \/ Borrow \/ EnsureSleeps \/ EnsureReturns
            \/ \E size \in Sizes : Write(size)
            \/ PerformReturns \/ \E s \in Sessions : GiveBack(s)
            \/ StopNext \/ StopReturns \/ Join

LEMMA NextCases ==
    ASSUME Next
    PROVE  \/ MainStep
           \/ \E s \in Sessions : \/ Succeeds(s) \/ Fails(s) \/ Aborts(s)
                                  \/ TakesFrame(s) \/ Arrives(s) \/ WriteFails(s) \/ Breaks(s)
           \/ \E s \in Sessions : \/ OnResolve(s) \/ OnConnect(s) \/ OnHandshake(s)
                                  \/ NotifyAll(s) \/ OnWrite(s) \/ OnClose(s)
           \/ Leave \/ Crash \/ UNCHANGED vars
BY DEF Next, Main, MainStep, Network, Worker, Handler, Over

LEMMA MainMoves ==
    ASSUME Next
    PROVE  MainStep \/ (\E s \in Sessions : NotifyAll(s)) \/ Crash \/ UNCHANGED main
<1>1. ASSUME NEW s \in Sessions, Succeeds(s) \/ Fails(s) \/ Aborts(s)  PROVE UNCHANGED main
      BY <1>1 DEF Succeeds, Fails, Aborts, OpEnds
<1>2. ASSUME NEW s \in Sessions, TakesFrame(s) \/ Arrives(s) \/ WriteFails(s) \/ Breaks(s)
      PROVE  UNCHANGED main
      BY <1>2 DEF TakesFrame, Arrives, WriteFails, Breaks
<1>3. ASSUME NEW s \in Sessions, OnResolve(s) \/ OnConnect(s) \/ OnHandshake(s)
      PROVE  UNCHANGED main
      BY <1>3 DEF OnResolve, OnConnect, OnHandshake, ChainStep
<1>4. ASSUME NEW s \in Sessions, OnWrite(s) \/ OnClose(s)  PROVE UNCHANGED main
      BY <1>4 DEF OnWrite, OnClose
<1>5. ASSUME Leave  PROVE UNCHANGED main  BY <1>5 DEF Leave
<1>6. ASSUME UNCHANGED vars  PROVE UNCHANGED main  BY <1>6 DEF vars
<1> QED  BY NextCases, <1>1, <1>2, <1>3, <1>4, <1>5, <1>6

LEMMA MainTyped == ASSUME TypeOK, Next PROVE MainOK'
<1> USE SessionFacts DEF TypeOK, MainOK
<1>1. CASE Make
  <2>1. made' \in 0 .. PoolSize /\ (pc' = "making" => made' < PoolSize) /\ pc' \in {"idle", "making"}
        BY <1>1 DEF Make
  <2>2. made + 1 \in Sessions  BY <1>1 DEF Make, Sessions
  <2>3. avail' \in Seq(Sessions)  BY <1>1, <2>2 DEF Make
  <2>4. cur' = NoSession /\ cur' = cur  BY <1>1 DEF Make, Borrowing
  <2>5. links' = links /\ work' = work  BY <1>1 DEF Make
  <2> QED  BY <2>1, <2>3, <2>4, <2>5 DEF Phases, Borrowing
<1>2. CASE Borrow
  <2>1. Head(avail) \in Sessions /\ Tail(avail) \in Seq(Sessions)  BY <1>2 DEF Borrow
  <2> QED  BY <1>2, <2>1 DEF Borrow, Phases, Borrowing
<1>3. CASE EnsureSleeps  BY <1>3 DEF EnsureSleeps, Phases, Borrowing
<1>4. CASE EnsureReturns
  <2>1. cur \in Sessions  BY <1>4 DEF EnsureReturns, Borrowing
  <2> QED  BY <1>4, <2>1 DEF EnsureReturns, Phases, Borrowing
<1>5. CASE \E size \in Sizes : Write(size)  BY <1>5 DEF Write, Phases, Borrowing
<1>6. CASE PerformReturns  BY <1>6 DEF PerformReturns, LoanOver, Phases, Borrowing
<1>7. CASE \E s \in Sessions : GiveBack(s)  BY <1>7 DEF GiveBack
<1>8. CASE StopNext
  <2>1. Tail(avail) \in Seq(Sessions)  BY <1>8 DEF StopNext
  <2> QED  BY <1>8, <2>1 DEF StopNext, Phases, Borrowing
<1>9. CASE StopReturns  BY <1>9 DEF StopReturns, WorkReset, Phases, Borrowing
<1>10. CASE Join  BY <1>10 DEF Join, Phases, Borrowing
<1>11. CASE \E s \in Sessions : NotifyAll(s)  BY <1>11 DEF NotifyAll, Wakes, Phases, Borrowing
<1>12. CASE Crash  BY <1>12 DEF Crash, Phases
<1>13. CASE UNCHANGED main  BY <1>13 DEF main
<1> QED  BY MainMoves, <1>1, <1>2, <1>3, <1>4, <1>5, <1>6, <1>7, <1>8, <1>9, <1>10,
            <1>11, <1>12, <1>13 DEF MainStep
LEMMA ChainMoves ==
    ASSUME Next
    PROVE  \/ Make
           \/ \E s \in Sessions : \/ Succeeds(s) \/ Fails(s) \/ Aborts(s)
                                  \/ OnResolve(s) \/ OnConnect(s) \/ OnHandshake(s)
           \/ UNCHANGED chain
<1>1. ASSUME MainStep  PROVE Make \/ UNCHANGED chain
      BY <1>1 DEF MainStep, Borrow, EnsureSleeps, EnsureReturns, Write, PerformReturns,
                  GiveBack, StopNext, StopReturns, Join, chain
<1>2. ASSUME NEW s \in Sessions, TakesFrame(s) \/ Arrives(s) \/ WriteFails(s) \/ Breaks(s)
      PROVE  UNCHANGED chain
      BY <1>2 DEF TakesFrame, Arrives, WriteFails, Breaks
<1>3. ASSUME NEW s \in Sessions, NotifyAll(s) \/ OnWrite(s) \/ OnClose(s)  PROVE UNCHANGED chain
      BY <1>3 DEF NotifyAll, OnWrite, OnClose
<1>4. ASSUME Leave \/ Crash \/ UNCHANGED vars  PROVE UNCHANGED chain
      BY <1>4 DEF Leave, Crash, vars
<1> QED  BY NextCases, <1>1, <1>2, <1>3, <1>4

LEMMA ChainTyped == ASSUME TypeOK, Next PROVE ChainOK'
<1> USE DEF TypeOK, ChainOK
<1>1. CASE Make
  <2>1. "resolve" \in Operations  BY DEF Operations
  <2> QED  BY <1>1, <2>1 DEF Make
<1>2. ASSUME NEW s \in Sessions, Succeeds(s) \/ Fails(s) \/ Aborts(s)  PROVE ChainOK'
  <2>1. "ok" \in Outcomes /\ "error" \in Outcomes  BY DEF Outcomes
  <2> QED  BY <1>2, <2>1 DEF Succeeds, Fails, Aborts, OpEnds
<1>3. ASSUME NEW s \in Sessions, NEW this, NEW next \in Operations, ChainStep(s, this, next)
      PROVE  op' \in [Sessions -> Operations] /\ ended' \in [Sessions -> Outcomes]
  <2>1. "pending" \in Outcomes /\ "over" \in Operations  BY DEF Operations, Outcomes
  <2> QED  BY <1>3, <2>1 DEF ChainStep
<1>4. ASSUME NEW s \in Sessions, OnResolve(s) \/ OnConnect(s)  PROVE ChainOK'
  <2>1. "connect" \in Operations /\ "handshake" \in Operations  BY DEF Operations
  <2> QED  BY <1>3, <1>4, <2>1 DEF OnResolve, OnConnect
<1>5. ASSUME NEW s \in Sessions, OnHandshake(s)  PROVE ChainOK'
  <2>1. "over" \in Operations  BY DEF Operations
  <2>2. connected' \in [Sessions -> BOOLEAN]  BY <1>5 DEF OnHandshake
  <2> QED  BY <1>3, <1>5, <2>1, <2>2 DEF OnHandshake
<1>6. CASE UNCHANGED chain  BY <1>6 DEF chain
<1> QED  BY ChainMoves, <1>1, <1>2, <1>4, <1>5, <1>6

LEMMA WorkersMove ==
    ASSUME Next
    PROVE  Leave \/ (\E s \in Sessions : OnHandshake(s) \/ NotifyAll(s)) \/ UNCHANGED pool
<1>1. ASSUME MainStep  PROVE UNCHANGED pool
      BY <1>1 DEF MainStep, Make, Borrow, EnsureSleeps, EnsureReturns, Write,
                  PerformReturns, GiveBack, StopNext, StopReturns, Join
<1>2. ASSUME NEW s \in Sessions, Succeeds(s) \/ Fails(s) \/ Aborts(s)  PROVE UNCHANGED pool
      BY <1>2 DEF Succeeds, Fails, Aborts, OpEnds
<1>3. ASSUME NEW s \in Sessions, TakesFrame(s) \/ Arrives(s) \/ WriteFails(s) \/ Breaks(s)
      PROVE  UNCHANGED pool
      BY <1>3 DEF TakesFrame, Arrives, WriteFails, Breaks
<1>4. ASSUME NEW s \in Sessions, OnResolve(s) \/ OnConnect(s) \/ OnWrite(s) \/ OnClose(s)
      PROVE  UNCHANGED pool
      BY <1>4 DEF OnResolve, OnConnect, OnWrite, OnClose
<1>5. ASSUME Crash \/ UNCHANGED vars  PROVE UNCHANGED pool  BY <1>5 DEF Crash, vars
<1> QED  BY NextCases, <1>1, <1>2, <1>3, <1>4, <1>5

LEMMA WorkersTyped == ASSUME TypeOK, Next PROVE WorkersOK'
<1> USE DEF TypeOK, WorkersOK
<1>1. CASE Leave
  <2>1. IsFiniteSet(notifying)  BY SessionFacts, FS_Subset
  <2>2. Cardinality(notifying) \in Nat  BY <2>1, FS_CardinalityType
  <2>3. left' = left + 1 /\ Cardinality(notifying) + left < NumWorkers  BY <1>1 DEF Leave, WorkerIsFree
  <2>4. left + 1 \in 0 .. NumWorkers  BY <2>2, <2>3
  <2> QED  BY <1>1, <2>3, <2>4 DEF Leave
<1>2. ASSUME NEW s \in Sessions, OnHandshake(s) \/ NotifyAll(s)  PROVE WorkersOK'
      BY <1>2 DEF OnHandshake, NotifyAll
<1>3. CASE UNCHANGED pool  BY <1>3 DEF pool
<1> QED  BY WorkersMove, <1>1, <1>2, <1>3

LEMMA StreamMoves ==
    ASSUME Next
    PROVE  \/ StopNext \/ \E size \in Sizes : Write(size)
           \/ \E s \in Sessions : \/ TakesFrame(s) \/ Arrives(s) \/ WriteFails(s) \/ Breaks(s)
                                  \/ OnWrite(s) \/ OnClose(s)
           \/ UNCHANGED stream
<1>1. ASSUME MainStep  PROVE StopNext \/ (\E size \in Sizes : Write(size)) \/ UNCHANGED stream
      BY <1>1 DEF MainStep, Make, Borrow, EnsureSleeps, EnsureReturns, PerformReturns,
                  GiveBack, StopReturns, Join
<1>2. ASSUME NEW s \in Sessions, Succeeds(s) \/ Fails(s) \/ Aborts(s)  PROVE UNCHANGED stream
      BY <1>2 DEF Succeeds, Fails, Aborts, OpEnds
<1>3. ASSUME NEW s \in Sessions, OnResolve(s) \/ OnConnect(s) \/ OnHandshake(s) \/ NotifyAll(s)
      PROVE  UNCHANGED stream
      BY <1>3 DEF OnResolve, OnConnect, OnHandshake, ChainStep, NotifyAll
<1>4. ASSUME Leave \/ Crash \/ UNCHANGED vars  PROVE UNCHANGED stream
      BY <1>4 DEF Leave, Crash, vars
<1> QED  BY NextCases, <1>1, <1>2, <1>3, <1>4

\* Replacing the oldest write of a session, or taking it away, keeps the types.
LEMMA HeadReplaced ==
    ASSUME TypeOK, NEW s \in Sessions, writes[s] # <<>>, NEW w \in WriteOp, HeadBecomes(s, w)
    PROVE  writes' \in [Sessions -> Seq(WriteOp)]
<1>1. writes[s] \in Seq(WriteOp)  BY DEF TypeOK, StreamOK
<1>2. Tail(writes[s]) \in Seq(WriteOp) /\ <<w>> \in Seq(WriteOp)  BY <1>1
<1>3. <<w>> \o Tail(writes[s]) \in Seq(WriteOp)  BY <1>2
<1> QED  BY <1>3 DEF HeadBecomes, TypeOK, StreamOK

LEMMA HeadTyped ==
    ASSUME TypeOK, NEW s \in Sessions, writes[s] # <<>>
    PROVE  Head(writes[s]) \in WriteOp
BY DEF TypeOK, StreamOK

LEMMA StreamTyped == ASSUME TypeOK, Next PROVE StreamOK'
<1> USE DEF TypeOK, StreamOK
<1>1. CASE StopNext
  <2>1. Head(avail) \in Sessions  BY <1>1 DEF StopNext, MainOK
  <2> QED  BY <1>1, <2>1 DEF StopNext
<1>2. ASSUME NEW size \in Sizes, Write(size)  PROVE StreamOK'
  <2> DEFINE w == [unread |-> UnreadAtFirst(size, writes[cur] # <<>>),
                   intact |-> TRUE, ended |-> "pending"]
  <2>1. cur \in Sessions  BY <1>2 DEF Write, MainOK, Borrowing
  <2>2. UnreadAtFirst(size, writes[cur] # <<>>) \in Nat  BY DEF UnreadAtFirst, Frames
  <2>3. "pending" \in Outcomes  BY DEF Outcomes
  <2>4. w \in WriteOp  BY <2>2, <2>3 DEF WriteOp
  <2>5. writes' = [writes EXCEPT ![cur] = Append(@, w)]  BY <1>2 DEF Write
  <2> HIDE DEF w
  <2>6. Append(writes[cur], w) \in Seq(WriteOp)  BY <2>1, <2>4
  <2> QED  BY <1>2, <2>1, <2>5, <2>6 DEF Write
<1>3. ASSUME NEW s \in Sessions, TakesFrame(s)  PROVE StreamOK'
  <2> DEFINE w == Head(writes[s])
  <2>1. writes[s] # <<>> /\ w.unread > 0  BY <1>3 DEF TakesFrame, WriteGoesOn
  <2>2. w \in WriteOp  BY <2>1, HeadTyped
  <2>3. PICK kept \in BOOLEAN :
            HeadBecomes(s, [w EXCEPT !.unread = @ - 1, !.intact = @ /\ kept])
        BY <1>3 DEF TakesFrame
  <2> HIDE DEF w
  <2>4. [w EXCEPT !.unread = @ - 1, !.intact = @ /\ kept] \in WriteOp
    <3>1. w.unread - 1 \in Nat  BY <2>1, <2>2 DEF WriteOp, w
    <3>2. (w.intact /\ kept) \in BOOLEAN  OBVIOUS
    <3> QED  BY <2>2, <3>1, <3>2 DEF WriteOp
  <2> QED  BY <1>3, <2>1, <2>3, <2>4, HeadReplaced DEF TakesFrame
<1>4. ASSUME NEW s \in Sessions, NEW how \in Outcomes, writes[s] # <<>>,
             HeadBecomes(s, [Head(writes[s]) EXCEPT !.ended = how])
      PROVE  writes' \in [Sessions -> Seq(WriteOp)]
  <2>1. [Head(writes[s]) EXCEPT !.ended = how] \in WriteOp  BY <1>4, HeadTyped DEF WriteOp
  <2> QED  BY <1>4, <2>1, HeadReplaced
<1>5. ASSUME NEW s \in Sessions, Arrives(s)  PROVE StreamOK'
  <2>1. "ok" \in Outcomes  BY DEF Outcomes
  <2>2. HeadBecomes(s, [Head(writes[s]) EXCEPT !.ended = "ok"]) /\ writes[s] # <<>>
        BY <1>5 DEF Arrives, WriteGoesOn
  <2> QED  BY <1>4, <1>5, <2>1, <2>2 DEF Arrives
<1>6. ASSUME NEW s \in Sessions, WriteFails(s)  PROVE StreamOK'
  <2>1. "error" \in Outcomes  BY DEF Outcomes
  <2>2. HeadBecomes(s, [Head(writes[s]) EXCEPT !.ended = "error"]) /\ writes[s] # <<>>
        BY <1>6 DEF WriteFails, WriteGoesOn
  <2> QED  BY <1>4, <1>6, <2>1, <2>2 DEF WriteFails
<1>7. ASSUME NEW s \in Sessions, OnWrite(s)  PROVE StreamOK'
  <2>1. Tail(writes[s]) \in Seq(WriteOp)  BY <1>7 DEF OnWrite
  <2> QED  BY <1>7, <2>1 DEF OnWrite
<1>8. ASSUME NEW s \in Sessions, Breaks(s) \/ OnClose(s)  PROVE StreamOK'
      BY <1>8 DEF Breaks, OnClose
<1>9. CASE UNCHANGED stream  BY <1>9 DEF stream
<1> QED  BY StreamMoves, <1>1, <1>2, <1>3, <1>5, <1>6, <1>7, <1>8, <1>9

LEMMA LifeMoves ==
    ASSUME Next
    PROVE  \/ StopNext
           \/ \E s \in Sessions : OnResolve(s) \/ OnConnect(s) \/ OnHandshake(s) \/ NotifyAll(s)
           \/ UNCHANGED life
<1>1. ASSUME MainStep  PROVE StopNext \/ UNCHANGED life
      BY <1>1 DEF MainStep, Make, Borrow, EnsureSleeps, EnsureReturns, Write,
                  PerformReturns, GiveBack, StopReturns, Join
<1>2. ASSUME NEW s \in Sessions, Succeeds(s) \/ Fails(s) \/ Aborts(s)  PROVE UNCHANGED life
      BY <1>2 DEF Succeeds, Fails, Aborts, OpEnds
<1>3. ASSUME NEW s \in Sessions, TakesFrame(s) \/ Arrives(s) \/ WriteFails(s) \/ Breaks(s)
      PROVE  UNCHANGED life
      BY <1>3 DEF TakesFrame, Arrives, WriteFails, Breaks
<1>4. ASSUME NEW s \in Sessions, OnWrite(s) \/ OnClose(s)  PROVE UNCHANGED life
      BY <1>4 DEF OnWrite, OnWriteUses, NotTouched, OnClose, life
<1>5. ASSUME Leave \/ Crash \/ UNCHANGED vars  PROVE UNCHANGED life
      BY <1>5 DEF Leave, Crash, vars
<1> QED  BY NextCases, <1>1, <1>2, <1>3, <1>4, <1>5

LEMMA LifeTyped == ASSUME TypeOK, Next PROVE LifeOK'
<1> USE DEF TypeOK, LifeOK
<1>1. CASE StopNext
  <2>1. Head(avail) \in Sessions  BY <1>1 DEF StopNext, MainOK
  <2> QED  BY <1>1, <2>1 DEF StopNext, Destroyed
<1>2. ASSUME NEW s \in Sessions, OnResolve(s) \/ OnConnect(s) \/ OnHandshake(s)  PROVE LifeOK'
      BY <1>2 DEF OnResolve, OnConnect, OnHandshake, ChainStep, Touches, NotTouched
<1>3. ASSUME NEW s \in Sessions, NotifyAll(s)  PROVE LifeOK'
      BY <1>3 DEF NotifyAll, Touches
<1>4. CASE UNCHANGED life  BY <1>4 DEF life
<1> QED  BY LifeMoves, <1>1, <1>2, <1>3, <1>4

LEMMA TypedInit == Init => TypeOK
<1>1. Init => MainOK  BY DEF Init, MainOK, Phases, Borrowing
<1>2. Init => WorkersOK  BY DEF Init, WorkersOK
<1>3. Init => ChainOK  BY DEF Init, ChainOK, Operations, Outcomes
<1>4. Init => StreamOK  BY DEF Init, StreamOK
<1>5. Init => LifeOK  BY DEF Init, LifeOK
<1> QED  BY <1>1, <1>2, <1>3, <1>4, <1>5 DEF TypeOK

LEMMA TypedStep == TypeOK /\ [Next]_vars => TypeOK'
<1> SUFFICES ASSUME TypeOK, [Next]_vars  PROVE TypeOK'  OBVIOUS
<1>1. CASE Next
      BY <1>1, MainTyped, WorkersTyped, ChainTyped, StreamTyped, LifeTyped DEF TypeOK
<1>2. CASE UNCHANGED vars
  <2>1. UNCHANGED <<main, pool, chain, stream, life>>  BY <1>2 DEF vars
  <2>2. MainOK' /\ WorkersOK'  BY <2>1 DEF TypeOK, MainOK, WorkersOK, main, pool
  <2>3. ChainOK' /\ StreamOK' /\ LifeOK'
        BY <2>1 DEF TypeOK, ChainOK, StreamOK, LifeOK, chain, stream, life
  <2> QED  BY <2>2, <2>3 DEF TypeOK
<1> QED  BY <1>1, <1>2

\* The variables of the pool keep their types.
THEOREM TypeCorrect == Spec => []TypeOK
BY TypedInit, TypedStep, PTL DEF Spec

-----------------------------------------------------------------------------
\* What a destroyed session's handlers may touch.

Ending == {"stopping", "joining", "exit", "crashed"}

\* A session whose chain is under way when it is destroyed is in early.
EarlyKnown == /\ touched \subseteq early /\ early \subseteq gone
              /\ \A s \in gone : ChainUnderWay(s) => s \in early

\* Sessions are destroyed at the end, when the constructor is long done.
GoneAtEnd == gone # {} => pc \in Ending

LEMMA EndingStays == ASSUME Next, pc \in Ending  PROVE pc' \in Ending
<1>1. CASE MainStep
      BY <1>1 DEF MainStep, Make, Borrow, EnsureSleeps, EnsureReturns, Write,
                  PerformReturns, GiveBack, StopNext, StopReturns, Join, Ending
<1>2. CASE \E s \in Sessions : NotifyAll(s)  BY <1>2 DEF NotifyAll, Wakes, Ending
<1>3. CASE Crash  BY <1>3 DEF Crash, Ending
<1>4. CASE UNCHANGED main  BY <1>4 DEF main
<1> QED  BY MainMoves, <1>1, <1>2, <1>3, <1>4

\* The handlers of the chain and the notification destroy nothing.
LEMMA HandlersDestroyNothing ==
    ASSUME NEW s \in Sessions, OnResolve(s) \/ OnConnect(s) \/ OnHandshake(s) \/ NotifyAll(s)
    PROVE  /\ gone' = gone /\ early' = early
           /\ touched' = touched \/ (touched' = touched \cup {s} /\ ChainUnderWay(s) /\ s \in gone)
<1>1. ASSUME NEW this \in {"resolve", "connect", "handshake"}, NEW next, ChainStep(s, this, next)
      PROVE  /\ gone' = gone /\ early' = early
             /\ touched' = touched \/ (touched' = touched \cup {s} /\ ChainUnderWay(s) /\ s \in gone)
      BY <1>1 DEF ChainStep, Touches, NotTouched, ChainUnderWay
<1>2. CASE OnResolve(s) \/ OnConnect(s) \/ OnHandshake(s)
      BY <1>1, <1>2 DEF OnResolve, OnConnect, OnHandshake
<1>3. CASE NotifyAll(s)  BY <1>3 DEF NotifyAll, Touches, ChainUnderWay
<1> QED  BY <1>2, <1>3

LEMMA GoneAtEndStep == ASSUME TypeOK, GoneAtEnd, Next  PROVE GoneAtEnd'
<1>1. CASE StopNext  BY <1>1 DEF StopNext, GoneAtEnd, Ending
<1>2. CASE gone' = gone  BY <1>2, EndingStays DEF GoneAtEnd
<1> QED  BY <1>1, <1>2, LifeMoves, HandlersDestroyNothing DEF life

\* No chain gets under way again, except that the constructor starts it.
LEMMA ChainsEnd ==
    ASSUME TypeOK, Next, NEW s \in Sessions, ChainUnderWay(s)', ~ChainUnderWay(s)
    PROVE  Make
<1>1. ASSUME NEW t \in Sessions, OnHandshake(t)  PROVE FALSE
  <2>1. op[t] = "handshake" /\ op' = [op EXCEPT ![t] = "over"]  BY <1>1 DEF OnHandshake, ChainStep
  <2>2. notifying' \subseteq notifying \cup {t}  BY <1>1 DEF OnHandshake
  <2>3. s # t  BY <2>1 DEF ChainUnderWay
  <2>4. op'[s] = op[s]  BY <2>1, <2>3 DEF TypeOK, ChainOK
  <2> QED  BY <2>2, <2>3, <2>4 DEF ChainUnderWay
<1>2. ASSUME NEW t \in Sessions, NEW this \in {"resolve", "connect"}, NEW next,
             ChainStep(t, this, next), UNCHANGED pool
      PROVE  FALSE
  <2>1. op[t] = this /\ s # t  BY <1>2 DEF ChainStep, ChainUnderWay
  <2>2. op'[s] = op[s]  BY <1>2, <2>1 DEF ChainStep, TypeOK, ChainOK
  <2> QED  BY <1>2, <2>2 DEF ChainUnderWay, pool
<1>3. ASSUME NEW t \in Sessions, OnResolve(t) \/ OnConnect(t)  PROVE FALSE
      BY <1>2, <1>3 DEF OnResolve, OnConnect
<1>4. ASSUME NEW t \in Sessions, Succeeds(t) \/ Fails(t) \/ Aborts(t)  PROVE FALSE
      BY <1>4 DEF Succeeds, Fails, Aborts, OpEnds, ChainUnderWay, pool
<1>5. ASSUME NEW t \in Sessions, NotifyAll(t)  PROVE FALSE
      BY <1>5 DEF NotifyAll, ChainUnderWay, chain
<1>6. CASE Leave  BY <1>6 DEF Leave, ChainUnderWay, chain
<1>7. CASE UNCHANGED pool /\ UNCHANGED chain  BY <1>7 DEF pool, chain, ChainUnderWay
<1> QED  BY ChainMoves, WorkersMove, <1>1, <1>3, <1>4, <1>5, <1>6, <1>7

LEMMA EarlyStep == ASSUME TypeOK, GoneAtEnd, EarlyKnown, Next  PROVE EarlyKnown'
<1>1. ASSUME Make  PROVE gone = {} /\ UNCHANGED life  BY <1>1 DEF Make, GoneAtEnd, Ending
<1>2. \A s \in gone : ChainUnderWay(s)' => ChainUnderWay(s)
      BY <1>1, ChainsEnd DEF TypeOK, LifeOK
<1>3. CASE StopNext
  <2>1. PICK h \in Sessions :
            /\ gone' = gone \cup {h} /\ touched' = touched
            /\ early' = IF ChainUnderWay(h) THEN early \cup {h} ELSE early
    <3>1. Head(avail) \in Sessions  BY <1>3 DEF StopNext, TypeOK, MainOK
    <3> QED  BY <1>3, <3>1 DEF StopNext, Destroyed
  <2>2. ChainUnderWay(h)' <=> ChainUnderWay(h)  BY <1>3 DEF StopNext, ChainUnderWay, chain, pool
  <2> QED  BY <1>2, <2>1, <2>2 DEF EarlyKnown
<1>4. ASSUME NEW s \in Sessions, OnResolve(s) \/ OnConnect(s) \/ OnHandshake(s) \/ NotifyAll(s)
      PROVE  EarlyKnown'
  <2>1. gone' = gone /\ early' = early  BY <1>4, HandlersDestroyNothing
  <2>2. touched' \subseteq early  BY <1>4, HandlersDestroyNothing DEF EarlyKnown
  <2> QED  BY <1>2, <2>1, <2>2 DEF EarlyKnown
<1>5. CASE UNCHANGED life  BY <1>2, <1>5 DEF EarlyKnown, life
<1> QED  BY LifeMoves, <1>3, <1>4, <1>5

LifeInv == TypeOK /\ GoneAtEnd /\ EarlyKnown

LEMMA LifeStep == LifeInv /\ [Next]_vars => LifeInv'
<1> SUFFICES ASSUME LifeInv, [Next]_vars  PROVE LifeInv'  OBVIOUS
<1>1. CASE Next  BY <1>1, TypedStep, GoneAtEndStep, EarlyStep DEF LifeInv
<1>2. CASE UNCHANGED vars
  <2>1. UNCHANGED <<pc, gone, early, touched, op, notifying>>
        BY <1>2 DEF vars, main, life, chain, pool
  <2>2. TypeOK'  BY <1>2, TypedStep DEF LifeInv
  <2> QED  BY <2>1, <2>2 DEF LifeInv, GoneAtEnd, EarlyKnown, ChainUnderWay
<1> QED  BY <1>1, <1>2

LEMMA LifeInvariance == Spec => []LifeInv
<1>1. Init => LifeInv  BY TypedInit DEF LifeInv, Init, GoneAtEnd, EarlyKnown
<1> QED  BY <1>1, LifeStep, PTL DEF Spec

\* A handler uses a destroyed session only when the connect chain of this
\* session was under way at its destruction.
THEOREM UsesAlways == Spec => []UsesOnlyLive
<1>1. LifeInv => UsesOnlyLive  BY DEF LifeInv, EarlyKnown, UsesOnlyLive
<1> QED  BY <1>1, LifeInvariance, PTL

-----------------------------------------------------------------------------
\* What is left when the destructor has come back.

Queued(s) == \E i \in 1 .. Len(avail) : avail[i] = s

\* The constructor enqueues the sessions in their order.
Begun == pc = "making" => avail = [i \in 1 .. made |-> i] /\ links = {}
\* A session is in the queue, on loan, or destroyed.
Placed == pc # "making" =>
              \A s \in Sessions : Queued(s) \/ s \in links \/ s = cur \/ s \in gone
\* The link of the request in progress.
Linked == pc \in {"linked", "perform"} => cur \in links
Closed == /\ pc \in Ending => links = {}
          /\ pc \in {"joining", "exit"} => avail = <<>>
\* The workers leave when the guard is gone and nothing is under way, and
\* nothing starts any more.
LeftIdle == /\ ~work => pc \in {"joining", "exit", "crashed"}
            /\ left > 0 => OutOfWork
            /\ pc = "exit" => left > 0

PoolInv == LifeInv /\ Begun /\ Linked /\ Placed /\ Closed /\ LeftIdle

LEMMA QueueSteps ==
    ASSUME TypeOK, NEW s \in Sessions
    PROVE  /\ \A t \in Sessions : avail' = Append(avail, t) => (Queued(s)' <=> Queued(s) \/ s = t)
           /\ avail # <<>> /\ avail' = Tail(avail) /\ Queued(s) => Queued(s)' \/ s = Head(avail)
<1>1. avail \in Seq(Sessions) /\ Len(avail) \in Nat  BY DEF TypeOK, MainOK
<1>2. ASSUME NEW t \in Sessions, avail' = Append(avail, t)
      PROVE  Queued(s)' <=> Queued(s) \/ s = t
  <2>1. /\ Len(avail') = Len(avail) + 1 /\ avail'[Len(avail) + 1] = t
        /\ \A i \in 1 .. Len(avail) : avail'[i] = avail[i]
        BY <1>1, <1>2, AppendProperties
  <2> QED  BY <1>1, <2>1 DEF Queued
<1>3. ASSUME avail # <<>>, avail' = Tail(avail), Queued(s)  PROVE Queued(s)' \/ s = Head(avail)
  <2>1. /\ Len(avail) > 0 /\ Head(avail) = avail[1] /\ Len(avail') = Len(avail) - 1
        /\ \A i \in 1 .. Len(avail') : avail'[i] = avail[i + 1]
        BY <1>1, <1>3, HeadTailProperties
  <2>2. PICK i \in 1 .. Len(avail) : avail[i] = s  BY <1>3 DEF Queued
  <2>3. i = 1 \/ (i - 1 \in 1 .. Len(avail') /\ avail'[i - 1] = avail[i])  BY <1>1, <2>1, <2>2
  <2> QED  BY <2>1, <2>2, <2>3 DEF Queued
<1> QED  BY <1>2, <1>3

LEMMA MadeInOrder ==
    ASSUME TypeOK, Begun, Make
    PROVE  avail' = [i \in 1 .. made' |-> i]
<1>1. avail = [i \in 1 .. made |-> i] /\ made \in Nat  BY DEF Begun, Make, TypeOK, MainOK
<1>2. made' = made + 1 /\ avail' = Append(avail, made + 1)  BY DEF Make
<1>3. avail \in Seq(Nat) /\ Len(avail) = made
  <2>1. avail \in Seq(Sessions)  BY DEF TypeOK, MainOK
  <2> QED  BY <1>1, <2>1, SessionFacts
<1>4. avail' \in Seq(Nat) /\ Len(avail') = made + 1  BY <1>1, <1>2, <1>3
<1>5. \A i \in 1 .. made + 1 : avail'[i] = i  BY <1>1, <1>2, <1>3
<1> QED  BY <1>2, <1>4, <1>5

LEMMA BegunStep == ASSUME PoolInv, Next  PROVE Begun'
<1> USE DEF Begun
<1>1. CASE Make
  <2>1. avail' = [i \in 1 .. made' |-> i]  BY <1>1, MadeInOrder DEF PoolInv, LifeInv
  <2> QED  BY <1>1, <2>1 DEF Make, PoolInv
<1>2. ASSUME MainStep, ~Make  PROVE pc' # "making"
      BY <1>2 DEF MainStep, Borrow, EnsureSleeps, EnsureReturns, Write, PerformReturns,
                  GiveBack, StopNext, StopReturns, Join
<1>3. ASSUME NEW s \in Sessions, NotifyAll(s)  PROVE Begun'
      BY <1>3 DEF NotifyAll, Wakes, PoolInv
<1>4. CASE Crash  BY <1>4 DEF Crash
<1>5. CASE UNCHANGED main  BY <1>5 DEF main, PoolInv
<1> QED  BY MainMoves, <1>1, <1>2, <1>3, <1>4, <1>5

LEMMA MainQuiet ==
    ASSUME Next
    PROVE  MainStep \/ UNCHANGED <<made, cur, links, avail, work>>
BY MainMoves DEF NotifyAll, Crash, main

LEMMA GoneGrows == ASSUME TypeOK, Next  PROVE gone \subseteq gone'
<1>1. CASE StopNext  BY <1>1 DEF StopNext, Destroyed
<1> QED  BY <1>1, LifeMoves, HandlersDestroyNothing DEF life

LEMMA PlacedStep == ASSUME PoolInv, Next  PROVE Placed'
<1>1. TypeOK  BY DEF PoolInv, LifeInv
<1> SUFFICES ASSUME pc' # "making", NEW s \in Sessions
             PROVE  Queued(s)' \/ s \in links' \/ s = cur' \/ s \in gone'
    BY DEF Placed
<1>2. gone \subseteq gone'  BY <1>1, GoneGrows
<1>3. CASE Make
  <2>1. made' = PoolSize  BY <1>3 DEF Make
  <2>2. avail' = [i \in 1 .. PoolSize |-> i]  BY <1>1, <1>3, <2>1, MadeInOrder DEF PoolInv
  <2>3. Len(avail') = PoolSize  BY <2>2
  <2> QED  BY <2>2, <2>3 DEF Queued, Sessions
<1> DEFINE P == Queued(s) \/ s \in links \/ s = cur \/ s \in gone
<1>4. ASSUME pc # "making"  PROVE P  BY <1>4 DEF PoolInv, Placed
<1> HIDE DEF P
<1>5. CASE Borrow
  <2>1. P /\ cur = NoSession  BY <1>1, <1>4, <1>5 DEF Borrow, TypeOK, MainOK, Borrowing
  <2> QED  BY <1>1, <1>2, <1>5, <2>1, QueueSteps, SessionFacts DEF Borrow, P
<1>6. CASE EnsureSleeps  BY <1>2, <1>4, <1>6 DEF EnsureSleeps, P, Queued
<1>7. CASE EnsureReturns  BY <1>2, <1>4, <1>7 DEF EnsureReturns, P, Queued
<1>8. ASSUME NEW size \in Sizes, Write(size)
      PROVE  Queued(s)' \/ s \in links' \/ s = cur' \/ s \in gone'
      BY <1>2, <1>4, <1>8 DEF Write, P, Queued
<1>9. CASE PerformReturns
  <2>1. cur \in links  BY <1>9 DEF PerformReturns, PoolInv, Linked
  <2> QED  BY <1>2, <1>4, <1>9, <2>1 DEF PerformReturns, P, Queued
<1>10. ASSUME NEW t \in Sessions, GiveBack(t)
       PROVE  Queued(s)' \/ s \in links' \/ s = cur' \/ s \in gone'
       BY <1>1, <1>2, <1>4, <1>10, QueueSteps DEF GiveBack, P
<1>11. CASE StopNext
  <2>1. gone' = gone \cup {Head(avail)}  BY <1>11 DEF StopNext, Destroyed
  <2>2. P  BY <1>4, <1>11 DEF StopNext
  <2> QED  BY <1>1, <1>11, <2>1, <2>2, QueueSteps DEF StopNext, P
<1>12. CASE StopReturns  BY <1>2, <1>4, <1>12 DEF StopReturns, P, Queued
<1>13. CASE Join  BY <1>2, <1>4, <1>13 DEF Join, P, Queued
<1>14. ASSUME UNCHANGED <<made, cur, links, avail, work>>, pc # "making"
       PROVE  Queued(s)' \/ s \in links' \/ s = cur' \/ s \in gone'
       BY <1>2, <1>4, <1>14 DEF P, Queued
<1>15. pc = "making" => Make \/ ~MainStep
       BY DEF MainStep, Borrow, EnsureSleeps, EnsureReturns, Write, PerformReturns,
              GiveBack, StopNext, StopReturns, Join
<1>16. UNCHANGED main => pc # "making"  BY DEF main
<1>17. ASSUME NEW t \in Sessions, NotifyAll(t)  PROVE pc # "making"  BY <1>17 DEF NotifyAll, Wakes
<1>18. Crash => pc # "making"
       BY DEF Crash, PoolInv, LifeInv, EarlyKnown, GoneAtEnd, Ending
<1> QED  BY MainMoves, MainQuiet, <1>3, <1>5, <1>6, <1>7, <1>8, <1>9, <1>10, <1>11, <1>12,
            <1>13, <1>14, <1>15, <1>16, <1>17, <1>18 DEF MainStep

LEMMA LinkedStep == ASSUME PoolInv, Next  PROVE Linked'
<1> USE DEF PoolInv, Linked
<1>1. ASSUME MainStep, ~\E size \in Sizes : Write(size)  PROVE Linked'
      BY <1>1 DEF MainStep, Make, Borrow, EnsureSleeps, EnsureReturns, PerformReturns,
                  GiveBack, StopNext, StopReturns, Join
<1>2. ASSUME NEW size \in Sizes, Write(size)  PROVE Linked'  BY <1>2 DEF Write
<1>3. ASSUME NEW s \in Sessions, NotifyAll(s)  PROVE Linked'  BY <1>3 DEF NotifyAll, Wakes
<1>4. CASE Crash  BY <1>4 DEF Crash
<1>5. CASE UNCHANGED main  BY <1>5 DEF main
<1> QED  BY MainMoves, <1>1, <1>2, <1>3, <1>4, <1>5

LEMMA ClosedStep == ASSUME PoolInv, Next  PROVE Closed'
<1> USE DEF PoolInv, Closed
<1>1. ASSUME Make \/ Borrow \/ EnsureSleeps \/ EnsureReturns \/ PerformReturns  PROVE Closed'
      BY <1>1 DEF Make, Borrow, EnsureSleeps, EnsureReturns, PerformReturns, Ending
<1>2. ASSUME NEW size \in Sizes, Write(size)  PROVE Closed'  BY <1>2 DEF Write, Ending
<1>3. ASSUME NEW s \in Sessions, GiveBack(s)  PROVE Closed'  BY <1>3 DEF GiveBack, Ending
<1>4. CASE StopNext  BY <1>4 DEF StopNext, Ending
<1>5. CASE StopReturns  BY <1>5 DEF StopReturns, Ending
<1>6. CASE Join  BY <1>6 DEF Join, Ending
<1>7. ASSUME NEW s \in Sessions, NotifyAll(s)  PROVE Closed'
      BY <1>7 DEF NotifyAll, Wakes, Ending
<1>8. CASE Crash
  <2>1. pc \in Ending  BY <1>8 DEF Crash, LifeInv, EarlyKnown, GoneAtEnd
  <2> QED  BY <1>8, <2>1 DEF Crash
<1>9. CASE UNCHANGED main  BY <1>9 DEF main
<1> QED  BY MainMoves, <1>1, <1>2, <1>3, <1>4, <1>5, <1>6, <1>7, <1>8, <1>9 DEF MainStep

\* Once the workers may leave, nothing starts.
LEMMA NothingStarts ==
    ASSUME TypeOK, OutOfWork, pc \in {"joining", "exit", "crashed"}, Next
    PROVE  OutOfWork'
<1> USE DEF OutOfWork
<1>1. ~MainStep \/ Join
      BY DEF MainStep, Make, Borrow, EnsureSleeps, EnsureReturns, Write, PerformReturns,
             GiveBack, StopNext, StopReturns
<1>2. work' = work  BY <1>1, MainQuiet DEF Join
<1>3. \A s \in Sessions : ~ChainUnderWay(s)'
  <2>1. ~Make  BY DEF Make
  <2> QED  BY <2>1, ChainsEnd
<1>4. /\ closing' \subseteq closing
      /\ \A s \in Sessions : writes'[s] = <<>>
  <2>1. ASSUME NEW s \in Sessions, TakesFrame(s) \/ Arrives(s) \/ WriteFails(s) \/ OnWrite(s)
        PROVE  FALSE
        BY <2>1 DEF TakesFrame, Arrives, WriteFails, OnWrite, WriteGoesOn
  <2>2. ASSUME NEW s \in Sessions, Breaks(s) \/ OnClose(s)
        PROVE  closing' \subseteq closing /\ writes' = writes
        BY <2>2 DEF Breaks, OnClose
  <2>3. ~StopNext /\ \A size \in Sizes : ~Write(size)  BY DEF StopNext, Write
  <2> QED  BY StreamMoves, <2>1, <2>2, <2>3 DEF stream
<1> QED  BY <1>2, <1>3, <1>4

LEMMA LeftIdleStep == ASSUME PoolInv, Next  PROVE LeftIdle'
<1>1. TypeOK /\ LeftIdle  BY DEF PoolInv, LifeInv
<1>2. ~work' => pc' \in {"joining", "exit", "crashed"}
  <2>1. ASSUME MainStep, ~StopReturns  PROVE work' = work /\ (pc = "joining" => pc' = "exit")
                                             /\ pc \notin {"exit", "crashed"}
        BY <2>1 DEF MainStep, Make, Borrow, EnsureSleeps, EnsureReturns, Write, PerformReturns,
                    GiveBack, StopNext, Join
  <2>2. CASE StopReturns  BY <2>2 DEF StopReturns
  <2>3. ASSUME NEW s \in Sessions, NotifyAll(s)  PROVE ~work' => pc' \in {"joining", "exit", "crashed"}
        BY <1>1, <2>3 DEF NotifyAll, Wakes, LeftIdle
  <2>4. CASE Crash  BY <2>4 DEF Crash
  <2>5. CASE UNCHANGED main  BY <1>1, <2>5 DEF main, LeftIdle
  <2> QED  BY <1>1, MainMoves, <2>1, <2>2, <2>3, <2>4, <2>5 DEF LeftIdle
<1>3. left' > 0 => OutOfWork'
  <2>1. CASE Leave
    <3>1. OutOfWork  BY <2>1 DEF Leave
    <3> QED  BY <2>1, <3>1 DEF Leave, OutOfWork, main, chain, stream, ChainUnderWay
  <2>2. CASE ~Leave
    <3>1. left' = left
          BY <2>2, WorkersMove DEF OnHandshake, NotifyAll, pool
    <3>2. left > 0 => OutOfWork /\ pc \in {"joining", "exit", "crashed"}
          BY <1>1 DEF LeftIdle, OutOfWork
    <3> QED  BY <1>1, <3>1, <3>2, NothingStarts
  <2> QED  BY <2>1, <2>2
<1>4. pc' = "exit" => left' > 0
  <2>1. left' >= left /\ left \in Nat /\ left' \in Nat
    <3>1. CASE Leave  BY <1>1, <3>1 DEF Leave, TypeOK, WorkersOK
    <3>2. CASE ~Leave
          BY <1>1, <3>2, WorkersMove DEF OnHandshake, NotifyAll, pool, TypeOK, WorkersOK
    <3> QED  BY <3>1, <3>2
  <2>2. CASE Join  BY <2>1, <2>2 DEF Join
  <2>3. ASSUME MainStep, ~Join  PROVE pc' # "exit"
        BY <2>3 DEF MainStep, Make, Borrow, EnsureSleeps, EnsureReturns, Write, PerformReturns,
                    GiveBack, StopNext, StopReturns
  <2>4. ASSUME NEW s \in Sessions, NotifyAll(s)  PROVE pc' = "exit" => pc = "exit"
        BY <2>4 DEF NotifyAll, Wakes
  <2>5. CASE Crash  BY <2>5 DEF Crash
  <2>6. CASE UNCHANGED main  BY <1>1, <2>1, <2>6 DEF main, LeftIdle
  <2> QED  BY <1>1, MainMoves, <2>1, <2>2, <2>3, <2>4, <2>5, <2>6 DEF LeftIdle
<1> QED  BY <1>2, <1>3, <1>4 DEF LeftIdle

LEMMA PoolStep == PoolInv /\ [Next]_vars => PoolInv'
<1> SUFFICES ASSUME PoolInv, [Next]_vars  PROVE PoolInv'  OBVIOUS
<1>1. CASE Next
      BY <1>1, LifeStep, BegunStep, LinkedStep, PlacedStep, ClosedStep, LeftIdleStep DEF PoolInv
<1>2. CASE UNCHANGED vars
  <2>1. LifeInv'  BY <1>2, LifeStep DEF PoolInv
  <2>2. UNCHANGED <<pc, made, cur, links, avail, work, left, notifying, op, writes, closing, gone>>
        BY <1>2 DEF vars, main, pool, chain, stream, life
  <2>3. Begun' /\ Linked' /\ Placed' /\ Closed'
        BY <2>2 DEF PoolInv, Begun, Linked, Placed, Queued, Closed
  <2>4. LeftIdle'  BY <2>2 DEF PoolInv, LeftIdle, OutOfWork, ChainUnderWay
  <2> QED  BY <2>1, <2>3, <2>4 DEF PoolInv
<1> QED  BY <1>1, <1>2

LEMMA PoolInvariance == Spec => []PoolInv
<1>1. Init => LifeInv  BY TypedInit DEF LifeInv, Init, GoneAtEnd, EarlyKnown
<1>2. Init => Begun
  <2>1. <<>> = [i \in 1 .. 0 |-> i]  OBVIOUS
  <2> QED  BY <2>1 DEF Init, Begun
<1>3. Init => Linked /\ Placed /\ Closed /\ LeftIdle
      BY DEF Init, Linked, Placed, Closed, LeftIdle, Ending
<1>4. Init => PoolInv  BY <1>1, <1>2, <1>3 DEF PoolInv
<1> QED  BY <1>4, PoolStep, PTL DEF Spec

\* When the destructor has come back, every session is destroyed and no handler
\* is left to run.
THEOREM ExitAlways == Spec => []ExitIsClean
<1>1. ASSUME PoolInv, pc = "exit"  PROVE gone = Sessions /\ OutOfWork
  <2>1. /\ avail = <<>> /\ links = {} /\ cur = NoSession /\ left > 0
        BY <1>1 DEF PoolInv, LifeInv, TypeOK, MainOK, Closed, LeftIdle, Ending, Borrowing
  <2>2. \A s \in Sessions : s \in gone
        BY <1>1, <2>1, SessionFacts DEF PoolInv, Placed, Queued
  <2> QED  BY <1>1, <2>1, <2>2 DEF PoolInv, LifeInv, TypeOK, LifeOK, LeftIdle
<1>2. PoolInv => ExitIsClean  BY <1>1 DEF ExitIsClean, OutOfWork
<1> QED  BY <1>2, PoolInvariance, PTL

-----------------------------------------------------------------------------
\* The pool keeps the promise of Lending.

\* A session is made before its chain starts, and connected at its end.
OnceUp == \A s \in Sessions : /\ s > made => op[s] = "none"
                              /\ connected[s] => op[s] = "over"

LEMMA MadeGrows == ASSUME Next, ~Make  PROVE made' = made
BY MainMoves DEF MainStep, Borrow, EnsureSleeps, EnsureReturns, Write, PerformReturns,
   GiveBack, StopNext, StopReturns, Join, NotifyAll, Crash, main

LEMMA OnceUpStep == ASSUME TypeOK, OnceUp, Next  PROVE OnceUp'
<1> USE SessionFacts DEF OnceUp
<1>1. CASE Make
  <2>1. made \in Nat /\ op \in [Sessions -> Operations]  BY DEF TypeOK, MainOK, ChainOK
  <2>2. made' = made + 1 /\ op' = [op EXCEPT ![made + 1] = "resolve"] /\ connected' = connected
        BY <1>1 DEF Make
  <2> QED  BY <2>1, <2>2
<1>2. ASSUME NEW s \in Sessions, Succeeds(s) \/ Fails(s) \/ Aborts(s)  PROVE OnceUp'
  <2>1. UNCHANGED <<made, op, connected>>
        BY <1>2 DEF Succeeds, Fails, Aborts, OpEnds, main
  <2> QED  BY <2>1
<1>3. ASSUME NEW s \in Sessions, NEW this \in {"resolve", "connect"}, NEW next,
             ChainStep(s, this, next), UNCHANGED connected
      PROVE  OnceUp'
  <2>1. /\ op[s] = this /\ made' = made
        /\ op' = [op EXCEPT ![s] = next] \/ op' = [op EXCEPT ![s] = "over"]
        BY <1>3 DEF ChainStep, main
  <2> QED  BY <1>3, <2>1 DEF TypeOK, ChainOK
<1>4. ASSUME NEW s \in Sessions, OnResolve(s) \/ OnConnect(s)  PROVE OnceUp'
      BY <1>3, <1>4 DEF OnResolve, OnConnect
<1>5. ASSUME NEW s \in Sessions, OnHandshake(s)  PROVE OnceUp'
  <2>1. /\ op[s] = "handshake" /\ op' = [op EXCEPT ![s] = "over"] /\ made' = made
        /\ connected' = [connected EXCEPT ![s] = ended[s] = "ok"]
        BY <1>5 DEF OnHandshake, ChainStep, main
  <2> QED  BY <2>1 DEF TypeOK, ChainOK
<1>6. CASE UNCHANGED chain /\ ~Make
  <2>1. UNCHANGED <<made, op, connected>>  BY <1>6, MadeGrows DEF chain
  <2> QED  BY <2>1
<1> QED  BY ChainMoves, <1>1, <1>2, <1>4, <1>5, <1>6

\* What Lending sees of the state.
FreeNow  == IF pc = "making" THEN [s \in Sessions |-> s] ELSE avail
TakenNow == IF pc \in {"establish", "asleep"} THEN cur ELSE NoSession
UpNow    == {s \in Sessions : connected[s]}

LEMMA LenderNext ==
    /\ Lender!Sessions = Sessions /\ Lender!NoSession = NoSession
    /\ UNCHANGED <<FreeNow, TakenNow, links, UpNow, gone>> => UNCHANGED Lender!vars
    /\ \A s \in Sessions : Lender!Establish(s) \/ Lender!GiveBack(s) => Lender!Next
    /\ Lender!Take \/ Lender!Lend(NoSession) => Lender!Next
BY DEF Lender!Sessions, Sessions, Lender!NoSession, NoSession, FreeNow, TakenNow, UpNow,
       Lender!vars, Lender!Next

\* Making, waiting and working in the background are not seen.
LEMMA UnseenSteps ==
    ASSUME PoolInv,
           \/ Make \/ EnsureSleeps \/ (\E size \in Sizes : Write(size)) \/ PerformReturns
           \/ StopReturns \/ Join \/ Crash \/ \E s \in Sessions : NotifyAll(s)
    PROVE  UNCHANGED <<FreeNow, TakenNow, links, UpNow, gone>>
<1> USE DEF FreeNow, TakenNow
<1>1. ASSUME UNCHANGED <<chain, life>>  PROVE UNCHANGED <<UpNow, gone>>
      BY <1>1 DEF UpNow, chain, life
<1>2. CASE Make
  <2>1. /\ UNCHANGED <<cur, links, connected, life>> /\ pc = "making" /\ pc' \in {"idle", "making"}
        /\ pc' = "idle" => made' = PoolSize
        BY <1>2 DEF Make
  <2>2. pc' = "idle" => avail' = [s \in Sessions |-> s]
        BY <1>2, <2>1, MadeInOrder DEF PoolInv, LifeInv, Sessions
  <2> QED  BY <2>1, <2>2 DEF UpNow, life
<1>3. CASE EnsureSleeps  BY <1>1, <1>3 DEF EnsureSleeps
<1>4. ASSUME NEW size \in Sizes, Write(size)
      PROVE  UNCHANGED <<FreeNow, TakenNow, links, UpNow, gone>>
      BY <1>1, <1>4 DEF Write
<1>5. CASE PerformReturns  BY <1>1, <1>5 DEF PerformReturns
<1>6. CASE StopReturns \/ Join  BY <1>1, <1>6 DEF StopReturns, Join
<1>7. CASE Crash
  <2>1. pc \in Ending  BY <1>7 DEF Crash, PoolInv, LifeInv, EarlyKnown, GoneAtEnd
  <2> QED  BY <1>1, <1>7, <2>1 DEF Crash, Ending
<1>8. ASSUME NEW s \in Sessions, NotifyAll(s)
      PROVE  UNCHANGED <<FreeNow, TakenNow, links, UpNow, gone>>
      BY <1>8 DEF NotifyAll, Wakes, UpNow, chain
<1> QED  BY <1>2, <1>3, <1>4, <1>5, <1>6, <1>7, <1>8

\* So are the operations, and the handlers other than on_handshake.
LEMMA UnseenHandlers ==
    ASSUME NEW s \in Sessions,
           \/ Succeeds(s) \/ Fails(s) \/ Aborts(s) \/ TakesFrame(s) \/ Arrives(s)
           \/ WriteFails(s) \/ Breaks(s) \/ OnResolve(s) \/ OnConnect(s) \/ OnWrite(s) \/ OnClose(s)
    PROVE  UNCHANGED <<FreeNow, TakenNow, links, UpNow, gone>>
<1>1. ASSUME UNCHANGED <<main, connected, gone>>
      PROVE  UNCHANGED <<FreeNow, TakenNow, links, UpNow, gone>>
      BY <1>1 DEF FreeNow, TakenNow, UpNow, main
<1>2. CASE Succeeds(s) \/ Fails(s) \/ Aborts(s)
      BY <1>1, <1>2 DEF Succeeds, Fails, Aborts, OpEnds, life
<1>3. CASE TakesFrame(s) \/ Arrives(s) \/ WriteFails(s) \/ Breaks(s)
      BY <1>1, <1>3 DEF TakesFrame, Arrives, WriteFails, Breaks, chain, life
<1>4. CASE OnResolve(s) \/ OnConnect(s)
      BY <1>1, <1>4 DEF OnResolve, OnConnect, ChainStep
<1>5. CASE OnWrite(s) \/ OnClose(s)  BY <1>1, <1>5 DEF OnWrite, OnClose, chain, life
<1> QED  BY <1>2, <1>3, <1>4, <1>5

LEMMA LendingStep ==
    PoolInv /\ OnceUp /\ [Next]_vars => [Lender!Next]_(Lender!vars)
<1> SUFFICES ASSUME PoolInv, OnceUp, [Next]_vars  PROVE [Lender!Next]_(Lender!vars)  OBVIOUS
<1> USE LenderNext
<1>1. /\ TypeOK /\ avail \in Seq(Sessions) /\ cur \in Sessions \cup {NoSession}
      /\ pc # "crashed" => (cur # NoSession <=> pc \in Borrowing)
      /\ connected \in [Sessions -> BOOLEAN]
      /\ gone # {} => pc \in Ending
      BY DEF PoolInv, LifeInv, TypeOK, MainOK, ChainOK, GoneAtEnd
<1>2. CASE Borrow
  <2>1. /\ pc = "idle" /\ pc' = "establish" /\ avail # <<>>
        /\ cur' = Head(avail) /\ avail' = Tail(avail)
        /\ UNCHANGED <<links, connected, gone>>
        BY <1>2 DEF Borrow, chain, life
  <2>2. gone = {}  BY <1>1, <2>1 DEF Ending
  <2>3. Lender!Take  BY <2>1, <2>2 DEF Lender!Take
  <2> QED  BY <2>3
<1>3. CASE EnsureReturns
  <2>1. /\ pc = "establish" /\ pc' = "linked" /\ connected[cur] /\ links' = links \cup {cur}
        /\ UNCHANGED <<cur, avail, connected, gone>> /\ cur \in Sessions
        BY <1>1, <1>3 DEF EnsureReturns, Established, Borrowing, chain, life
  <2>2. Lender!Lend(NoSession)
    <3>1. links \ {NoSession} = links  BY <1>1, SessionFacts DEF TypeOK, MainOK
    <3> QED  BY <2>1, <3>1 DEF Lender!Lend
  <2> QED  BY <2>2
<1>4. ASSUME NEW s \in Sessions, GiveBack(s)  PROVE [Lender!Next]_(Lender!vars)
  <2>1. /\ pc = "idle" /\ pc' = pc /\ s \in links /\ links' = links \ {s}
        /\ avail' = Append(avail, s) /\ UNCHANGED <<cur, connected, gone>>
        BY <1>4 DEF GiveBack, chain, life
  <2>2. Lender!GiveBack(s)  BY <2>1 DEF Lender!GiveBack
  <2> QED  BY <2>2
<1>5. CASE StopNext
  <2>1. /\ pc \in {"idle", "stopping"} /\ pc' = "stopping" /\ avail # <<>>
        /\ avail' = Tail(avail) /\ gone' = gone \cup {Head(avail)}
        /\ UNCHANGED <<cur, links, connected>>
        BY <1>5 DEF StopNext, Destroyed, chain
  <2>2. links = {}  BY <1>5 DEF StopNext, PoolInv, Closed, Ending
  <2>3. Len(avail) \in Nat /\ Len(avail) >= 1 /\ Head(avail) = avail[1]
        BY <1>1, <2>1, HeadTailProperties
  <2>4. /\ SubSeq(avail, 1 + 1, Len(avail)) = Tail(avail)
        /\ Lender!Range(SubSeq(avail, 1, 1)) = {Head(avail)}
    <3>1. SubSeq(avail, 2, Len(avail)) = Tail(avail)  BY <1>1, <2>1, TailIsSubSeq
    <3>2. /\ SubSeq(avail, 1, 1) \in Seq(Sessions) /\ Len(SubSeq(avail, 1, 1)) = 1
          /\ SubSeq(avail, 1, 1)[1] = avail[1]
          BY <1>1, <2>3, SubSeqProperties
    <3>3. DOMAIN SubSeq(avail, 1, 1) = {1}  BY <3>2
    <3> QED  BY <2>3, <3>1, <3>2, <3>3 DEF Lender!Range
  <2>5. Lender!Close(1)  BY <2>1, <2>2, <2>4 DEF Lender!Close
  <2> QED  BY <2>1, <2>3, <2>5 DEF Lender!Next
<1>6. ASSUME NEW s \in Sessions, OnHandshake(s)  PROVE [Lender!Next]_(Lender!vars)
  <2>1. /\ UNCHANGED <<pc, cur, avail, links, gone>> /\ op[s] = "handshake"
        /\ connected' = [connected EXCEPT ![s] = ended[s] = "ok"]
        BY <1>6 DEF OnHandshake, ChainStep, main
  <2>2. ~connected[s]  BY <2>1 DEF OnceUp
  <2>3. CASE ended[s] = "ok"
    <3>1. UpNow' = UpNow \cup {s}  BY <1>1, <2>1, <2>3 DEF UpNow
    <3>2. Lender!Establish(s)  BY <2>1, <3>1 DEF Lender!Establish, UpNow
    <3> QED  BY <3>2
  <2>4. CASE ended[s] # "ok"
    <3>1. connected' = connected  BY <1>1, <2>1, <2>2, <2>4
    <3> QED  BY <2>1, <3>1 DEF FreeNow, TakenNow, UpNow
  <2> QED  BY <2>3, <2>4
<1>7. ASSUME Leave \/ UNCHANGED vars
      PROVE  UNCHANGED <<FreeNow, TakenNow, links, UpNow, gone>>
      BY <1>7 DEF Leave, vars, main, chain, life, FreeNow, TakenNow, UpNow
<1> QED  BY NextCases, UnseenSteps, UnseenHandlers, <1>2, <1>3, <1>4, <1>5, <1>6, <1>7 DEF MainStep

\* Whatever the workers and the network do meanwhile, the main thread takes the
\* sessions in their order, lends only connected ones, and closes all at the
\* end, for any number of sessions and workers.
THEOREM LendingKept == Spec => ImplementsLending
<1>1. Init => OnceUp /\ Lender!Init
      BY DEF Init, OnceUp, Lender!Init, Lender!Sessions, Sessions, Lender!NoSession, NoSession
<1>2. PoolInv /\ OnceUp /\ [Next]_vars => OnceUp'
  <2>1. UNCHANGED vars => UNCHANGED <<made, op, connected>>  BY DEF vars, main, chain
  <2> QED  BY <2>1, OnceUpStep DEF PoolInv, LifeInv, OnceUp
<1>3. Spec => []OnceUp  BY <1>1, <1>2, PoolInvariance, PTL DEF Spec
<1> QED  BY <1>1, <1>3, LendingStep, PoolInvariance, PTL DEF Spec, ImplementsLending, Lender!Spec
=============================================================================
