------------------------ MODULE FlowRunnerPoolProofs ------------------------
(***************************************************************************)
(* What happens to the pool's sessions in FlowRunner, for any scripts and  *)
(* any pool size: none is lost or lent twice, giving one back never waits, *)
(* and a request only waits for ever below a stack as deep as the pool.    *)
(* The runner uses the pool as Lending allows.                             *)
(***************************************************************************)
EXTENDS FlowRunnerProofs

-----------------------------------------------------------------------------
\* Queues without duplicates.

LEMMA TakenFromQueue ==
    ASSUME NEW S, NEW q \in Seq(S), q # <<>>, IsInjective(q)
    PROVE  /\ IsInjective(Tail(q)) /\ Head(q) \notin ToSet(Tail(q))
           /\ ToSet(Tail(q)) \subseteq ToSet(q) /\ Head(q) \in ToSet(q)
           /\ \A e \in ToSet(q) : e \in ToSet(Tail(q)) \/ e = Head(q)
  <1>1. /\ Len(q) \in Nat \ {0} /\ DOMAIN q = 1 .. Len(q) /\ Head(q) = q[1]
        /\ Tail(q) \in Seq(S) /\ Len(Tail(q)) = Len(q) - 1
        /\ DOMAIN Tail(q) = 1 .. Len(q) - 1
        /\ \A i \in 1 .. Len(q) - 1 : Tail(q)[i] = q[i + 1]
    OBVIOUS
  <1>2. \A i \in 1 .. Len(q) - 1 : i + 1 \in 1 .. Len(q) /\ i + 1 # 1
    BY <1>1
  <1>3. IsInjective(Tail(q))
    <2>1. \A i, j \in 1 .. Len(q) - 1 : q[i + 1] = q[j + 1] => i + 1 = j + 1
      BY <1>1, <1>2 DEF IsInjective
    <2>2. \A i, j \in 1 .. Len(q) - 1 : i + 1 = j + 1 => i = j
      BY <1>1
    <2> QED BY <1>1, <2>1, <2>2 DEF IsInjective
  <1>4. Head(q) \notin ToSet(Tail(q))
    <2> SUFFICES ASSUME NEW i \in 1 .. Len(q) - 1, q[i + 1] = q[1] PROVE FALSE
      BY <1>1 DEF ToSet
    <2>1. 1 \in 1 .. Len(q) /\ i + 1 \in 1 .. Len(q) /\ i + 1 # 1
      BY <1>1, <1>2
    <2> QED BY <1>1, <2>1 DEF IsInjective
  <1>5. ToSet(Tail(q)) \subseteq ToSet(q) /\ Head(q) \in ToSet(q)
    BY <1>1, <1>2 DEF ToSet
  <1>6. \A e \in ToSet(q) : e \in ToSet(Tail(q)) \/ e = Head(q)
    <2> SUFFICES ASSUME NEW i \in 1 .. Len(q), i # 1 PROVE q[i] \in ToSet(Tail(q))
      BY <1>1 DEF ToSet
    <2>1. i - 1 \in 1 .. Len(q) - 1 /\ i - 1 + 1 = i
      BY <1>1
    <2>2. Tail(q)[i - 1] = q[i]
      BY <1>1, <2>1
    <2> QED BY <1>1, <2>1, <2>2 DEF ToSet
  <1> QED BY <1>3, <1>4, <1>5, <1>6

LEMMA PutInQueue ==
    ASSUME NEW S, NEW q \in Seq(S), NEW e \in S, IsInjective(q), e \notin ToSet(q)
    PROVE  /\ IsInjective(Append(q, e))
           /\ \A x : x \in ToSet(Append(q, e)) <=> x \in ToSet(q) \/ x = e
  <1> DEFINE new == Append(q, e)
             n == Len(q)
  <1>1. /\ n \in Nat /\ DOMAIN q = 1 .. n /\ DOMAIN new = 1 .. n + 1
        /\ new[n + 1] = e /\ \A i \in 1 .. n : new[i] = q[i]
    OBVIOUS
  <1> HIDE DEF new, n
  <1>2. \A i \in 1 .. n + 1 : i \in 1 .. n \/ i = n + 1
    BY <1>1
  <1>3. \A i \in 1 .. n : q[i] # e
    BY <1>1 DEF ToSet
  <1>4. IsInjective(new)
    BY <1>1, <1>2, <1>3 DEF IsInjective
  <1>5. \A x : x \in ToSet(new) <=> x \in ToSet(q) \/ x = e
    <2>1. \A i \in 1 .. n : i \in 1 .. n + 1
      BY <1>1
    <2>2. n + 1 \in 1 .. n + 1
      BY <1>1
    <2> QED BY <1>1, <1>2, <2>1, <2>2 DEF ToSet
  <1> QED BY <1>4, <1>5 DEF new

-----------------------------------------------------------------------------
\* How a step can move sessions around.

Links(st) == {st[i].link : i \in 1 .. Len(st)}

LEMMA StackDomain == TInv => /\ Len(stack) \in Nat /\ DOMAIN stack = 1 .. Len(stack)
                             /\ \A i \in 1 .. Len(stack) : stack[i].link \in Sessions \cup {NoSession}
  <1> SUFFICES ASSUME TInv PROVE /\ Len(stack) \in Nat /\ DOMAIN stack = 1 .. Len(stack)
                                 /\ \A i \in 1 .. Len(stack) : stack[i].link \in Sessions \cup {NoSession}
    OBVIOUS
  <1>1. stack \in Seq(Frame)
    BY DEF TInv, TypeOK, StackOK
  <1>2. \A i \in 1 .. Len(stack) : stack[i] \in Frame
    BY <1>1
  <1> QED BY <1>1, <1>2 DEF Frame

\* Steps that touch neither the queue nor a link; frames they add have none.
LEMMA NothingMoves ==
    ASSUME TInv, SessionsConserved, UNCHANGED <<avail, pending>>,
           stack' \in Seq(Frame), Len(stack') >= Len(stack),
           \A i \in 1 .. Len(stack) : stack'[i].link = stack[i].link,
           \A i \in 1 .. Len(stack') : i > Len(stack) => stack'[i].link = NoSession,
           pc # "exit" \/ pc' = "exit"
    PROVE  SessionsConserved'
  <1>1. /\ Len(stack) \in Nat /\ DOMAIN stack = 1 .. Len(stack)
        /\ Len(stack') \in Nat /\ DOMAIN stack' = 1 .. Len(stack')
    BY StackDomain
  <1>2. \A i \in 1 .. Len(stack') : i \in 1 .. Len(stack) \/ i > Len(stack)
    BY <1>1
  <1>3. \A i \in 1 .. Len(stack) : i \in 1 .. Len(stack')
    BY <1>1
  <1>4. \A i \in 1 .. Len(stack') :
            stack'[i].link # NoSession => i \in 1 .. Len(stack) /\ stack'[i].link = stack[i].link
    BY <1>2
  <1>5. \A s \in Sessions : s # NoSession
    BY FlowAssumption DEF Sessions, NoSession
  <1>6. ToSet(avail) \subseteq Sessions
    BY DEF ToSet, TInv, TypeOK, PoolOK
  <1>7. IsInjective(avail)'
    BY DEF SessionsConserved
  <1>8. (\A i, j \in DOMAIN stack :
          stack[i].link = stack[j].link /\ stack[i].link # NoSession => i = j)'
    BY <1>1, <1>4 DEF SessionsConserved
  <1>9. \A s \in Sessions : Linked(s)' <=> Linked(s)
    BY <1>1, <1>3, <1>4, <1>5 DEF Linked
  <1>10. (\A s \in ToSet(avail) : ~Linked(s) /\ s # pending)'
    BY <1>6, <1>9 DEF SessionsConserved, ToSet
  <1>11. (\A i \in DOMAIN stack : stack[i].link # NoSession => stack[i].link # pending)'
    BY <1>1, <1>4 DEF SessionsConserved
  <1>12. (pc # "exit" => \A s \in Sessions : s \in ToSet(avail) \/ Linked(s) \/ s = pending)'
    BY <1>9 DEF SessionsConserved, ToSet
  <1> QED BY <1>7, <1>8, <1>10, <1>11, <1>12 DEF SessionsConserved

\* Steps that give back the session of the top frame, which goes away, or stays
\* with the session the main thread had in hand, or with none.
LEMMA TopMoves ==
    ASSUME TInv, SessionsConserved, stack # <<>>, GiveBack(Top.link), pc # "exit",
           stack' \in Seq(Frame),
           Len(stack') = Len(stack) - 1
             \/ (Len(stack') = Len(stack) /\ stack'[Len(stack)].link \in {pending, NoSession}),
           \A i \in 1 .. Len(stack) - 1 : stack'[i].link = stack[i].link,
           pending' = NoSession,
           pending = NoSession
             \/ (Len(stack') = Len(stack) /\ stack'[Len(stack)].link = pending)
    PROVE  SessionsConserved'
  <1> DEFINE n == Len(stack)
             q == avail
             top == Top.link
  <1>0. /\ n \in Nat \ {0} /\ n \in 1 .. n
        /\ \A i \in 1 .. n : i = n \/ i \in 1 .. n - 1
        /\ \A i \in 1 .. n - 1 : i \in 1 .. n /\ i # n
        /\ n - 1 \in Nat /\ \A i \in 1 .. n - 1 : i \in 1 .. n - 1
    <2>1. n \in Nat \ {0}
      BY DEF TInv, TypeOK, StackOK
    <2> HIDE DEF n
    <2> QED BY <2>1
  <1>1. /\ n \in Nat \ {0} /\ DOMAIN stack = 1 .. n /\ stack[n].link = top
        /\ Len(stack') \in {n - 1, n} /\ DOMAIN stack' = 1 .. Len(stack')
        /\ q \in Seq(Sessions) /\ top \in Sessions \cup {NoSession}
        /\ pending \in Sessions \cup {NoSession}
    <2>1. stack \in Seq(Frame) /\ stack # <<>> /\ Top = stack[n]
      BY DEF TInv, TypeOK, StackOK, Top
    <2>2. Len(stack') \in {n - 1, n} /\ DOMAIN stack' = 1 .. Len(stack')
      OBVIOUS
    <2>3. n \in Nat \ {0} /\ n \in 1 .. n
      BY <2>1
    <2> QED BY <2>1, <2>2, <2>3, StackDomain DEF TInv, TypeOK, PoolOK
  <1>2. \A s \in Sessions : s # NoSession
    BY FlowAssumption DEF Sessions, NoSession
  <1>3. /\ IsInjective(q)
        /\ \A i, j \in 1 .. n :
              stack[i].link = stack[j].link /\ stack[i].link # NoSession => i = j
        /\ \A s \in ToSet(q) : s # pending /\ \A i \in 1 .. n : stack[i].link # s
        /\ \A i \in 1 .. n : stack[i].link # NoSession => stack[i].link # pending
        /\ \A s \in Sessions :
              s \in ToSet(q) \/ (\E i \in 1 .. n : stack[i].link = s) \/ s = pending
    BY <1>1 DEF SessionsConserved, Linked
  <1>4. /\ avail' \in Seq(Sessions) /\ IsInjective(avail')
        /\ \A x : x \in ToSet(avail') <=> x \in ToSet(q) \/ (x = top /\ top # NoSession)
    <2>1. CASE top = NoSession
      BY <1>1, <1>3, <2>1 DEF GiveBack
    <2>2. CASE top # NoSession
      <3>1. top \in Sessions /\ avail' = Append(q, top)
        BY <1>1, <2>2 DEF GiveBack
      <3>2. top \notin ToSet(q)
        BY <1>0, <1>1, <1>3
      <3>3. /\ Append(q, top) \in Seq(Sessions) /\ IsInjective(Append(q, top))
            /\ \A x : x \in ToSet(Append(q, top)) <=> x \in ToSet(q) \/ x = top
        <4>1. q \in Seq(Sessions) /\ IsInjective(q)
          BY <1>1, <1>3
        <4> HIDE DEF q, top
        <4>2. Append(q, top) \in Seq(Sessions)
          BY <3>1, <4>1
        <4> QED BY <3>1, <3>2, <4>1, <4>2, PutInQueue
      <3> QED BY <2>2, <3>1, <3>3
    <2> QED BY <2>1, <2>2
  <1> HIDE DEF n, q, top
  <1>5. \A i \in 1 .. Len(stack') : i \in 1 .. n - 1 \/ (i = n /\ Len(stack') = n)
    <2>1. CASE Len(stack') = n
      BY <1>0, <2>1
    <2>2. CASE Len(stack') = n - 1
      BY <1>0, <2>2
    <2> QED BY <1>1, <2>1, <2>2
  <1>6. \A i \in 1 .. n - 1 : i \in 1 .. n /\ i # n /\ stack'[i].link = stack[i].link
                              /\ i \in 1 .. Len(stack')
    <2>1. \A i \in 1 .. n - 1 : stack'[i].link = stack[i].link
      BY DEF n
    <2> QED BY <1>0, <1>1, <2>1
  <1>7. Len(stack') = n => n \in 1 .. Len(stack') /\ stack'[n].link \in {pending, NoSession}
    <2>1. Len(stack') = n - 1 \/ stack'[n].link \in {pending, NoSession}
      BY DEF n
    <2>2. n # n - 1
      BY <1>0
    <2> QED BY <1>0, <2>1, <2>2
  <1>8. /\ pending' = NoSession
        /\ pending = NoSession \/ (Len(stack') = n /\ stack'[n].link = pending)
    BY DEF n
  <1>9. (\A i, j \in DOMAIN stack :
          stack[i].link = stack[j].link /\ stack[i].link # NoSession => i = j)'
    <2> SUFFICES ASSUME NEW i \in 1 .. Len(stack'), NEW j \in 1 .. Len(stack'),
                        stack'[i].link = stack'[j].link, stack'[i].link # NoSession
                 PROVE  i = j
      BY <1>1
    <2>1. CASE i \in 1 .. n - 1 /\ j \in 1 .. n - 1
      BY <1>3, <1>6, <2>1
    <2>2. CASE i = n /\ j = n
      BY <2>2
    <2>3. CASE i = n /\ j \in 1 .. n - 1
      BY <1>3, <1>5, <1>6, <1>7, <2>3
    <2>4. CASE j = n /\ i \in 1 .. n - 1
      BY <1>3, <1>5, <1>6, <1>7, <2>4
    <2> QED BY <1>5, <2>1, <2>2, <2>3, <2>4
  <1>10. (\A s \in ToSet(avail) : ~Linked(s) /\ s # pending)'
    <2> SUFFICES ASSUME NEW s \in ToSet(avail') 
                 PROVE  s # NoSession /\ \A i \in 1 .. Len(stack') : stack'[i].link # s
      BY <1>1, <1>8 DEF Linked, ToSet
    <2>1. s \in Sessions /\ s # NoSession
      BY <1>2, <1>4 DEF ToSet
    <2>2. \A i \in 1 .. n - 1 : stack[i].link # s
      <3>1. CASE s \in ToSet(q)
        BY <1>3, <1>6, <3>1
      <3>2. CASE s = top
        BY <1>0, <1>1, <1>3, <1>6, <2>1, <3>2
      <3> QED BY <1>4, <3>1, <3>2
    <2>3. s # pending
      BY <1>0, <1>1, <1>3, <1>4, <2>1
    <2> QED BY <1>5, <1>6, <1>7, <2>1, <2>2, <2>3
  <1>11. (\A i \in DOMAIN stack : stack[i].link # NoSession => stack[i].link # pending)'
    BY <1>8
  <1>12. (\A s \in Sessions : s \in ToSet(avail) \/ Linked(s) \/ s = pending)'
    <2> SUFFICES ASSUME NEW s \in Sessions
                 PROVE  s \in ToSet(avail') \/ \E i \in 1 .. Len(stack') : stack'[i].link = s
      BY <1>1 DEF Linked, ToSet
    <2>1. CASE s \in ToSet(q)
      BY <1>4, <2>1
    <2>2. CASE s = pending
      BY <1>2, <1>7, <1>8, <2>2
    <2>3. ASSUME NEW i \in 1 .. n, stack[i].link = s PROVE s \in ToSet(avail') \/ \E j \in 1 .. Len(stack') : stack'[j].link = s
      BY <1>0, <1>1, <1>2, <1>4, <1>6, <2>3
    <2> QED BY <1>3, <2>1, <2>2, <2>3
  <1> QED BY <1>4, <1>9, <1>10, <1>11, <1>12 DEF SessionsConserved

-----------------------------------------------------------------------------
\* Conservation, step by step.

LEMMA ConservedInit == Init => SessionsConserved
  <1> SUFFICES ASSUME Init PROVE SessionsConserved
    OBVIOUS
  <1>1. avail = [i \in Sessions |-> i] /\ stack = <<>> /\ pending = NoSession
    BY DEF Init
  <1>2. DOMAIN stack = {} /\ IsInjective(avail) /\ \A s \in Sessions : s \in ToSet(avail)
    BY <1>1 DEF IsInjective, ToSet
  <1>3. \A s \in ToSet(avail) : s # NoSession
    BY <1>1, FlowAssumption DEF ToSet, Sessions, NoSession
  <1> QED BY <1>1, <1>2, <1>3 DEF SessionsConserved, Linked

LEMMA ConservedByBorrow == TInv /\ SessionsConserved /\ Borrow => SessionsConserved'
  <1> SUFFICES ASSUME TInv, SessionsConserved, Borrow PROVE SessionsConserved'
    OBVIOUS
  <1>1. /\ avail \in Seq(Sessions) /\ avail # <<>> /\ UNCHANGED stack
        /\ pending' = Head(avail) /\ avail' = Tail(avail) /\ pending = NoSession
        /\ pc = "borrow"
    BY DEF Borrow, Dequeued, TInv, TypeOK, PoolOK
  <1>2. /\ IsInjective(avail') /\ pending' \notin ToSet(avail')
        /\ ToSet(avail') \subseteq ToSet(avail) /\ pending' \in ToSet(avail)
        /\ \A e \in ToSet(avail) : e \in ToSet(avail') \/ e = pending'
    BY <1>1, TakenFromQueue DEF SessionsConserved
  <1>3. \A s \in Sessions : s # NoSession
    BY FlowAssumption DEF Sessions, NoSession
  <1>4. (\A s \in ToSet(avail) : ~Linked(s) /\ s # pending)'
    BY <1>1, <1>2 DEF SessionsConserved, Linked, ToSet
  <1>5. (\A i \in DOMAIN stack : stack[i].link # NoSession => stack[i].link # pending)'
    BY <1>1, <1>2 DEF SessionsConserved, Linked
  <1>6. (\A s \in Sessions : s \in ToSet(avail) \/ Linked(s) \/ s = pending)'
    BY <1>1, <1>2, <1>3 DEF SessionsConserved, Linked, ToSet
  <1>7. (\A i, j \in DOMAIN stack :
          stack[i].link = stack[j].link /\ stack[i].link # NoSession => i = j)'
    BY <1>1 DEF SessionsConserved
  <1> QED BY <1>2, <1>4, <1>5, <1>6, <1>7 DEF SessionsConserved

LEMMA ConservedBySend == TInv /\ SessionsConserved /\ Send => SessionsConserved'
  <1> SUFFICES ASSUME TInv, SessionsConserved, Send PROVE SessionsConserved'
    OBVIOUS
  <1>1. pc = "establish" /\ GiveBack(Top.link) /\ pending' = NoSession
    BY DEF Send
  <1> QED BY <1>1, SendStack, TopMoves

LEMMA ConservedByEnd == TInv /\ SessionsConserved /\ EndOfSteps => SessionsConserved'
  <1> SUFFICES ASSUME TInv, SessionsConserved, EndOfSteps PROVE SessionsConserved'
    OBVIOUS
  <1>1. GiveBack(Top.link) /\ UNCHANGED pending /\ pc = "run" /\ pending = NoSession
    BY EndStack DEF EndOfSteps, TInv, TypeOK, PoolOK
  <1>2. \A i \in 1 .. Len(stack) - 1 : i <= Len(stack')
    BY EndStack
  <1>3. stack # <<>> /\ stack' \in Seq(Frame) /\ pending' = NoSession /\ pc # "exit"
    BY <1>1, EndStack
  <1>4. \A i \in 1 .. Len(stack) - 1 : stack'[i].link = stack[i].link
    BY <1>2, EndStack
  <1>5. \/ Len(stack') = Len(stack) - 1
        \/ Len(stack') = Len(stack) /\ stack'[Len(stack)].link \in {pending, NoSession}
    BY EndStack
  <1> QED BY <1>1, <1>3, <1>4, <1>5, TopMoves

LEMMA ConservedByUnwind == TInv /\ SessionsConserved /\ UnwindFrame => SessionsConserved'
  <1> SUFFICES ASSUME TInv, SessionsConserved, UnwindFrame PROVE SessionsConserved'
    OBVIOUS
  <1>1. GiveBack(Top.link) /\ UNCHANGED pending /\ pc = "unwind" /\ pending = NoSession
    BY DEF UnwindFrame, TInv, TypeOK, PoolOK
  <1>2. stack # <<>> /\ stack' \in Seq(Frame) /\ pending' = NoSession /\ pc # "exit"
    BY <1>1, UnwindStack
  <1>3. \A i \in 1 .. Len(stack) - 1 : stack'[i].link = stack[i].link
    BY UnwindStack
  <1>4. \/ Len(stack') = Len(stack) - 1
        \/ Len(stack') = Len(stack) /\ stack'[Len(stack)].link \in {pending, NoSession}
    BY UnwindStack
  <1> QED BY <1>1, <1>2, <1>3, <1>4, TopMoves

\* The steps that move no session.
LEMMA StackAlone ==
    ASSUME TInv, SessionsConserved, UNCHANGED <<avail, pending, stack>>,
           pc # "exit" \/ pc' = "exit"
    PROVE  SessionsConserved'
  <1>1. stack \in Seq(Frame) /\ Len(stack) \in Nat
    BY DEF TInv, TypeOK, StackOK
  <1> QED BY <1>1, NothingMoves

LEMMA Entered ==
    ASSUME TInv, SessionsConserved, UNCHANGED <<avail, pending>>, pc # "exit",
           NEW kind \in {"flow", "subflow", "block"}, NEW body \in Bodies,
           NEW base \in Paths, NEW left \in Nat \ {0}, Enter(kind, body, base, left)
    PROVE  SessionsConserved'
  <1> DEFINE f == NewFrame(kind, body, base, left)
  <1>1. f \in Frame /\ f.link = NoSession
    BY NewFrameIsFrame DEF NewFrame
  <1>2. stack' = Append(stack, f)
    BY DEF Enter
  <1> HIDE DEF f
  <1>3. stack \in Seq(Frame) /\ Len(stack) \in Nat
    BY DEF TInv, TypeOK, StackOK
  <1>4. /\ stack' \in Seq(Frame) /\ Len(stack') = Len(stack) + 1
        /\ \A i \in 1 .. Len(stack) : stack'[i] = stack[i]
        /\ stack'[Len(stack) + 1] = f
    BY <1>1, <1>2, <1>3, Pushed
  <1>5. \A i \in 1 .. Len(stack') : i > Len(stack) => stack'[i].link = NoSession
    BY <1>1, <1>3, <1>4
  <1> QED BY <1>3, <1>4, <1>5, NothingMoves

LEMMA AdvancedOnly ==
    ASSUME TInv, SessionsConserved, UNCHANGED <<avail, pending>>, pc # "exit",
           stack # <<>>, stack' = Advanced(stack)
    PROVE  SessionsConserved'
  <1>1. stack \in Seq(Frame) /\ Len(stack) \in Nat
    BY DEF TInv, TypeOK, StackOK
  <1>2. /\ stack' \in Seq(Frame) /\ Len(stack') = Len(stack)
        /\ \A i \in 1 .. Len(stack) : stack'[i].link = stack[i].link
    BY <1>1, Moved
  <1> QED BY <1>1, <1>2, NothingMoves

LEMMA ConservedByScheduler ==
    TInv /\ SessionsConserved /\ (StartFlow \/ CatchFlow \/ CatchOther \/ Finish \/ Shutdown)
      => SessionsConserved'
  <1> SUFFICES ASSUME TInv, SessionsConserved,
                      StartFlow \/ CatchFlow \/ CatchOther \/ Finish \/ Shutdown
               PROVE  SessionsConserved'
    OBVIOUS
  <1>1. CASE StartFlow
    <2> DEFINE base == TopLevelBase(plan[next])
               body == Disk[DirOf(base)]
    <2>1. base \in Paths /\ body \in Bodies \cup {Malformed} /\ pc = "schedule"
      <3>1. plan[next] \in Names /\ FlowDir(plan[next]) \in DOMAIN Disk
        BY <1>1, FlowAssumption DEF TInv, TypeOK, ControlOK, StartFlow
      <3> QED BY <1>1, <3>1, TopLevelDir, FlowAssumption DEF StartFlow
    <2>2. UNCHANGED <<avail, pending>>
      BY <1>1 DEF StartFlow, pool
    <2> HIDE DEF base
    <2>3. \/ body # Malformed /\ Enter("flow", body, base, 1)
          \/ UNCHANGED stack
      BY <1>1 DEF StartFlow, base
    <2>4. 1 \in Nat \ {0}
      OBVIOUS
    <2>5. CASE body # Malformed /\ Enter("flow", body, base, 1)
      <3>1. body \in Bodies /\ "flow" \in {"flow", "subflow", "block"} /\ pc # "exit"
        BY <2>1, <2>5
      <3> HIDE DEF body
      <3> QED BY <2>1, <2>2, <2>4, <2>5, <3>1, Entered
    <2>6. CASE UNCHANGED stack
      BY <2>1, <2>2, <2>6, StackAlone
    <2> QED BY <2>3, <2>5, <2>6
  <1>2. CASE CatchFlow \/ CatchOther \/ Finish
    <2>1. pc # "exit" /\ UNCHANGED <<avail, pending, stack>>
      BY <1>2 DEF CatchFlow, CatchOther, Finish, pool
    <2> QED BY <2>1, StackAlone
  <1>3. CASE Shutdown
    <2>1. /\ avail' = <<>> /\ pc' = "exit" /\ stack = <<>> /\ stack' = <<>>
      BY <1>3 DEF Shutdown, TInv, Shape
    <2>2. DOMAIN stack' = {} /\ DOMAIN avail' = {}
      BY <2>1
    <2> QED BY <2>1, <2>2 DEF SessionsConserved, IsInjective, ToSet
  <1> QED BY <1>1, <1>2, <1>3

LEMMA ConservedBySteps ==
    TInv /\ SessionsConserved /\ (\/ Render \/ RequestThrows \/ ResponseFirst \/ RunFlow \/ Block
                                  \/ \E s \in Sessions : \/ ResponseValid(s) \/ ResponseInvalid(s)
                                                         \/ ResponseNotJson(s) \/ ReadThrows(s))
      => SessionsConserved'
  <1> SUFFICES ASSUME TInv, SessionsConserved
               PROVE  (\/ Render \/ RequestThrows \/ ResponseFirst \/ RunFlow \/ Block
                       \/ \E s \in Sessions : \/ ResponseValid(s) \/ ResponseInvalid(s)
                                              \/ ResponseNotJson(s) \/ ReadThrows(s))
                      => SessionsConserved'
    OBVIOUS
  <1> USE DEF TInv, TypeOK
  <1>1. ASSUME Render \/ RequestThrows \/ ResponseFirst PROVE SessionsConserved'
    BY <1>1, StackAlone DEF Render, RequestThrows, ResponseFirst, AtStep, pool
  <1>2. ASSUME NEW s \in Sessions, ReadThrows(s) \/ ResponseInvalid(s) \/ ResponseNotJson(s)
        PROVE  SessionsConserved'
    BY <1>2, StackAlone DEF ReadThrows, ResponseInvalid, ResponseNotJson, Receive, AtStep, pool
  <1>3. ASSUME NEW s \in Sessions, ResponseValid(s) PROVE SessionsConserved'
    <2>1. /\ pc = "run" /\ UNCHANGED <<avail, pending>> /\ stack' = Advanced(stack)
      BY <1>3 DEF ResponseValid, Receive, AtStep, pool
    <2> QED BY <2>1, AdvancedOnly DEF StackOK
  <1>4. ASSUME RunFlow PROVE SessionsConserved'
    <2> DEFINE base == SubflowBase(Top.base, StepNow.name)
               dir == DirOf(base)
    <2>1. pc = "run" /\ stack # <<>> /\ Top \in Frame /\ StepNow \in Step /\ StepNow.op = "run_flow"
      BY <1>4, AtStepFacts DEF RunFlow
    <2>2. Top.base \in Paths /\ StepNow.name \in Names
      BY <2>1 DEF Frame, Step
    <2>3. base \in Paths /\ UNCHANGED <<avail, pending>>
      BY <1>4, <2>2, SubflowBaseIsPath DEF RunFlow, pool
    <2> HIDE DEF base
    <2>4. (Loadable(dir) /\ Enter("subflow", Disk[dir], base, 1)) \/ UNCHANGED stack
      BY <1>4 DEF RunFlow, base
    <2>5. Loadable(dir) => Disk[dir] \in Bodies
      BY FlowAssumption DEF Loadable
    <2>6. 1 \in Nat \ {0}
      OBVIOUS
    <2> QED BY <2>1, <2>3, <2>4, <2>5, <2>6, Entered, StackAlone
  <1>5. ASSUME Block PROVE SessionsConserved'
    <2>1. pc = "run" /\ stack # <<>> /\ Top \in Frame /\ StepNow \in Step /\ StepNow.op = "block"
      BY <1>5, AtStepFacts DEF Block
    <2>2. PICK n \in Repeats(StepNow) :
              stack' = Advanced(stack) \/ (n > 0 /\ Enter("block", StepNow.body, Top.base, n))
      <3> HIDE DEF TInv, TypeOK
      <3> QED BY <1>5 DEF Block
    <2>3. StepNow.body \in Bodies /\ Top.base \in Paths /\ UNCHANGED <<avail, pending>>
      BY <1>5, <2>1 DEF Step, Frame, Block, pool
    <2>4. n \in Nat
      BY <2>1, <2>2, FlowAssumption DEF Repeats, Step
    <2>5. CASE n > 0 /\ Enter("block", StepNow.body, Top.base, n)
      <3>1. n \in Nat \ {0}
        BY <2>4, <2>5
      <3> QED BY <2>1, <2>3, <2>5, <3>1, Entered
    <2> QED BY <2>1, <2>2, <2>3, <2>5, AdvancedOnly
  <1> QED BY <1>1, <1>2, <1>3, <1>4, <1>5

LEMMA ConservedStep == TInv /\ SessionsConserved /\ [Next]_vars => SessionsConserved'
  <1> SUFFICES ASSUME TInv, SessionsConserved, [Next]_vars PROVE SessionsConserved'
    OBVIOUS
  <1>1. CASE Main
    BY <1>1, ConservedByScheduler, ConservedBySteps, ConservedByBorrow, ConservedBySend,
       ConservedByEnd, ConservedByUnwind DEF Main
  <1>2. CASE Environment
    BY <1>2, EnvironmentTypes, StackAlone DEF main, pool
  <1>3. CASE UNCHANGED vars
    BY <1>3, StackAlone DEF vars, main, pool
  <1> QED BY <1>1, <1>2, <1>3 DEF Next, Ended

LEMMA ConservationInvariance == Spec => [](TInv /\ SessionsConserved)
  <1>1. Init => TInv /\ SessionsConserved
    BY TypeInit, ConservedInit
  <1>2. TInv /\ SessionsConserved /\ [Next]_vars => (TInv /\ SessionsConserved)'
    BY TypeStep, ConservedStep
  <1> QED BY <1>1, <1>2, PTL DEF Spec

\* Whatever the scripts do and however their flows end, a session is in the
\* queue, in hand, linked to exactly one frame, or closed.
THEOREM ConservedAlways == Spec => []SessionsConserved
  BY ConservationInvariance, PTL

-----------------------------------------------------------------------------
\* What conservation is good for.

LEMMA SessionCount == /\ IsFiniteSet(Sessions) /\ Cardinality(Sessions) = PoolSize
                      /\ PoolSize \in Nat /\ PoolSize >= 1 /\ NoSession \notin Sessions
  <1>1. PoolSize \in Nat /\ PoolSize >= 1 /\ 1 \in Int /\ PoolSize \in Int
    BY FlowAssumption
  <1>2. IsFiniteSet(1 .. PoolSize)
        /\ Cardinality(1 .. PoolSize) = IF 1 > PoolSize THEN 0 ELSE PoolSize - 1 + 1
    BY ONLY <1>1, FS_Interval
  <1> QED BY <1>1, <1>2 DEF Sessions, NoSession

\* A session that a frame holds is missing from the queue: there is room for it.
LEMMA RoomForLinked == TInv /\ SessionsConserved => ReturnNeverBlocks
  <1> SUFFICES ASSUME TInv, SessionsConserved,
                      NEW i \in DOMAIN stack, stack[i].link # NoSession
               PROVE  Len(avail) < PoolSize
    BY DEF ReturnNeverBlocks
  <1> DEFINE s == stack[i].link
             T == Sessions \ {s}
  <1>1. s \in Sessions /\ avail \in Seq(Sessions)
    BY StackDomain DEF TInv, TypeOK, PoolOK
  <1>2. s \notin ToSet(avail) /\ IsInjective(avail)
    BY DEF SessionsConserved, Linked
  <1>3. avail \in [1 .. Len(avail) -> T]
    <2>1. \A j \in 1 .. Len(avail) : avail[j] \in Sessions /\ avail[j] # s
      BY <1>1, <1>2 DEF ToSet
    <2> QED BY <1>1, <2>1
  <1>4. avail \in Injection(1 .. Len(avail), T)
    BY <1>2, <1>3 DEF Injection
  <1>5. IsFiniteSet(T) /\ Cardinality(T) = PoolSize - 1
    BY <1>1, SessionCount, FS_RemoveElement
  <1> HIDE DEF T
  <1>6. Cardinality(1 .. Len(avail)) <= Cardinality(T)
    BY <1>4, <1>5, FS_Injection
  <1>7. Cardinality(1 .. Len(avail)) = Len(avail)
    <2>1. Len(avail) \in Nat /\ 1 \in Int /\ Len(avail) \in Int
      BY <1>1
    <2>2. Cardinality(1 .. Len(avail)) = IF 1 > Len(avail) THEN 0 ELSE Len(avail) - 1 + 1
      BY ONLY <2>1, FS_Interval
    <2> QED BY <2>1, <2>2
  <1>8. Len(avail) <= PoolSize - 1 /\ Len(avail) \in Nat
    BY <1>1, <1>5, <1>6, <1>7
  <1> QED BY <1>8, SessionCount

\* ~ConnectionLink() always finds room in the queue: the destructor never waits.
THEOREM ReturnAlways == Spec => []ReturnNeverBlocks
  BY ConservationInvariance, RoomForLinked, PTL

\* When the queue is empty every session is held by a frame of its own.
LEMMA DeepWhenEmpty == TInv /\ SessionsConserved => StarvesOnlyWhenNested
  <1> SUFFICES ASSUME TInv, SessionsConserved, HungOnBorrow
               PROVE  Len(stack) >= PoolSize
    BY DEF StarvesOnlyWhenNested
  <1> DEFINE D == 1 .. Len(stack)
             f == [s \in Sessions |-> CHOOSE i \in D : stack[i].link = s]
  <1>1. Len(stack) \in Nat /\ DOMAIN stack = D
    BY StackDomain
  <1>2. pending = NoSession /\ pc # "exit" /\ ToSet(avail) = {}
    <2>1. pc = "borrow" /\ DOMAIN avail = {}
      BY DEF HungOnBorrow
    <2> QED BY <2>1 DEF TInv, TypeOK, PoolOK, ToSet
  <1>3. \A s \in Sessions : \E i \in D : stack[i].link = s
    BY <1>1, <1>2, SessionCount DEF SessionsConserved, Linked
  <1>4. \A s \in Sessions : f[s] \in D /\ stack[f[s]].link = s
    BY <1>3
  <1>5. f \in [Sessions -> D]
    BY <1>4
  <1> HIDE DEF f
  <1>6. IsInjective(f)
    BY <1>4, <1>5 DEF IsInjective
  <1>7. f \in Injection(Sessions, D)
    BY <1>5, <1>6 DEF Injection
  <1>8. IsFiniteSet(D) /\ Cardinality(D) = Len(stack)
    <2>1. 1 \in Int /\ Len(stack) \in Int
      BY <1>1
    <2>2. /\ IsFiniteSet(D)
          /\ Cardinality(D) = IF 1 > Len(stack) THEN 0 ELSE Len(stack) - 1 + 1
      BY ONLY <2>1, FS_Interval
    <2> QED BY <1>1, <2>2
  <1> HIDE DEF D
  <1>9. Cardinality(Sessions) <= Cardinality(D)
    BY <1>7, <1>8, FS_Injection
  <1> QED BY <1>1, <1>8, <1>9, SessionCount

\* A request step waits for a session only on a call stack at least as deep as
\* the pool is large.
THEOREM StarvesAlways == Spec => []StarvesOnlyWhenNested
  BY ConservationInvariance, DeepWhenEmpty, PTL

\* The pool's destructor runs with no link on the stack: its queue has them all.
LEMMA ExitStep ==
    TInv /\ SessionsConserved /\ ExitClosesAll /\ [Next]_vars => ExitClosesAll'
  <1> SUFFICES ASSUME TInv, SessionsConserved, ExitClosesAll, [Next]_vars, pc' = "exit"
               PROVE  closed' = Sessions
    BY DEF ExitClosesAll, Sessions
  <1>1. CASE Shutdown
    <2>1. closed' = ToSet(avail) /\ stack = <<>> /\ pc = "shutdown" /\ pending = NoSession
      BY <1>1 DEF Shutdown, TInv, TypeOK, PoolOK, Shape
    <2>2. \A s \in Sessions : s \in ToSet(avail)
      BY <2>1, SessionCount DEF SessionsConserved, Linked
    <2>3. ToSet(avail) \subseteq Sessions
      BY DEF TInv, TypeOK, PoolOK, ToSet
    <2> QED BY <2>1, <2>2, <2>3
  <1>2. CASE UNCHANGED <<pc, closed>>
    BY <1>2 DEF ExitClosesAll
  <1>3. CASE Environment \/ UNCHANGED vars
    <2>1. UNCHANGED <<pc, closed>>
      BY <1>3, EnvironmentTypes DEF vars, main, pool
    <2> QED BY <2>1, <1>2
  <1>4. CASE Main /\ ~Shutdown
    <2>1. pc' # "exit" \/ UNCHANGED <<pc, closed>>
      BY <1>4 DEF Main, StartFlow, CatchFlow, CatchOther, Finish, Render, RequestThrows, Borrow,
         Send, ResponseFirst, ResponseValid, ResponseInvalid, ResponseNotJson, ReadThrows, Receive,
         RunFlow, Block, EndOfSteps, UnwindFrame, Throw, Enter, GiveUp, AtStep, AtEnd, pool
    <2> QED BY <1>2, <2>1
  <1> QED BY <1>1, <1>3, <1>4 DEF Next, Ended

\* A process that ends by itself has closed every session of its pool.
THEOREM ExitAlways == Spec => []ExitClosesAll
  <1>1. Init => ExitClosesAll
    BY DEF Init, ExitClosesAll
  <1> QED BY <1>1, ExitStep, ConservationInvariance, PTL DEF Spec

LEMMA FreshStep ==
    TInv /\ SessionsConserved /\ [Next]_vars
      => [sent' # sent => \A i \in DOMAIN stack : stack[i].link # stack'[Len(stack)].link]_vars
  <1> SUFFICES ASSUME TInv, SessionsConserved, [Next]_vars, sent' # sent, NEW i \in DOMAIN stack
               PROVE  stack[i].link # stack'[Len(stack)].link
    OBVIOUS
  <1>1. CASE Send
    <2>1. stack'[Len(stack)].link = pending /\ pending # NoSession
      BY <1>1, SendStack, SessionCount
    <2> QED BY <2>1 DEF SessionsConserved
  <1>2. CASE ~Send
    <2>1. UNCHANGED sent
      BY <1>2 DEF Next, Main, Environment, Ended, vars, net, StartFlow, CatchFlow, CatchOther,
         Finish, Shutdown, Render, RequestThrows, Borrow, ResponseFirst, ResponseValid,
         ResponseInvalid, ResponseNotJson, ReadThrows, Receive, RunFlow, Block, EndOfSteps, UnwindFrame,
         Connects, ConnectFails, Loses, Answers, Becomes
    <2> QED BY <2>1
  <1> QED BY <1>1, <1>2

\* A request goes out on a session that no frame of the call stack was using.
THEOREM FreshAlways == Spec => FreshConnection
  BY ConservationInvariance, FreshStep, PTL DEF Spec, FreshConnection

-----------------------------------------------------------------------------
\* The sessions on loan, and how a step can change which they are.

LEMMA OnLoanDef == TInv => OnLoan = {stack[i].link : i \in 1 .. Len(stack)} \ {NoSession}
  BY StackDomain DEF OnLoan

LEMMA LoansKept ==
    ASSUME TInv, stack' \in Seq(Frame), Len(stack') >= Len(stack),
           \A i \in 1 .. Len(stack) : stack'[i].link = stack[i].link,
           \A i \in 1 .. Len(stack') : i > Len(stack) => stack'[i].link = NoSession
    PROVE  OnLoan' = OnLoan
  <1>1. /\ Len(stack) \in Nat /\ DOMAIN stack = 1 .. Len(stack)
        /\ Len(stack') \in Nat /\ DOMAIN stack' = 1 .. Len(stack')
    BY StackDomain
  <1>2. \A i \in 1 .. Len(stack') : i \in 1 .. Len(stack) \/ i > Len(stack)
    BY <1>1
  <1>3. \A i \in 1 .. Len(stack) : i \in 1 .. Len(stack')
    BY <1>1
  <1> QED BY <1>1, <1>2, <1>3 DEF OnLoan

LEMMA LoansEntered ==
    ASSUME TInv, NEW kind \in {"flow", "subflow", "block"}, NEW body \in Bodies,
           NEW base \in Paths, NEW left \in Nat \ {0}, Enter(kind, body, base, left)
    PROVE  OnLoan' = OnLoan
  <1> DEFINE f == NewFrame(kind, body, base, left)
  <1>1. f \in Frame /\ f.link = NoSession
    BY NewFrameIsFrame DEF NewFrame
  <1>2. stack' = Append(stack, f)
    BY DEF Enter
  <1> HIDE DEF f
  <1>3. stack \in Seq(Frame) /\ Len(stack) \in Nat
    BY DEF TInv, TypeOK, StackOK
  <1>4. /\ stack' \in Seq(Frame) /\ Len(stack') = Len(stack) + 1
        /\ \A i \in 1 .. Len(stack) : stack'[i] = stack[i]
        /\ stack'[Len(stack) + 1] = f
    BY <1>1, <1>2, <1>3, Pushed
  <1>5. \A i \in 1 .. Len(stack') : i > Len(stack) => stack'[i].link = NoSession
    BY <1>1, <1>3, <1>4
  <1> QED BY <1>3, <1>4, <1>5, LoansKept

LEMMA LoansAdvanced ==
    ASSUME TInv, stack # <<>>, stack' = Advanced(stack)
    PROVE  OnLoan' = OnLoan
  <1>1. stack \in Seq(Frame) /\ Len(stack) \in Nat
    BY DEF TInv, TypeOK, StackOK
  <1>2. /\ stack' \in Seq(Frame) /\ Len(stack') = Len(stack)
        /\ \A i \in 1 .. Len(stack) : stack'[i].link = stack[i].link
    BY <1>1, Moved
  <1> QED BY <1>1, <1>2, LoansKept

\* The top frame goes away, or stays with the session in hand, or with none.
LEMMA LoansTop ==
    ASSUME TInv, SessionsConserved, stack # <<>>, stack' \in Seq(Frame),
           \/ pending = NoSession /\ Len(stack') = Len(stack) - 1
           \/ Len(stack') = Len(stack) /\ stack'[Len(stack)].link = pending,
           \A i \in 1 .. Len(stack) - 1 : stack'[i].link = stack[i].link
    PROVE  OnLoan' = (OnLoan \ {Top.link}) \cup ({pending} \ {NoSession})
  <1> DEFINE n == Len(stack)
  <1>1. /\ n \in Nat \ {0} /\ DOMAIN stack = 1 .. n /\ stack[n].link = Top.link
        /\ DOMAIN stack' = 1 .. Len(stack') /\ Len(stack') \in {n - 1, n}
    BY StackDomain DEF TInv, TypeOK, StackOK, Top
  <1>2. \A i \in 1 .. n - 1 : stack'[i].link = stack[i].link
    OBVIOUS
  <1>3. \/ pending = NoSession /\ Len(stack') = n - 1
        \/ Len(stack') = n /\ stack'[n].link = pending
    OBVIOUS
  <1> HIDE DEF n
  <1>0. n \in Nat \ {0}
    BY <1>1
  <1>4. n \in 1 .. n /\ \A i \in 1 .. n : i \in 1 .. n - 1 \/ i = n
    BY <1>0
  <1>5. /\ \A i \in 1 .. n - 1 : i \in 1 .. n /\ i # n
        /\ \A i \in 1 .. n - 1 : stack[i].link # NoSession => stack[i].link # Top.link
    <2>1. \A i \in 1 .. n - 1 : i \in 1 .. n /\ i # n
      BY <1>0
    <2> QED BY <1>1, <1>4, <2>1 DEF SessionsConserved
  <1>6. OnLoan = ({stack[i].link : i \in 1 .. n - 1} \cup {Top.link}) \ {NoSession}
    BY <1>1, <1>4, <1>5 DEF OnLoan
  <1>7. OnLoan' = ({stack[i].link : i \in 1 .. n - 1} \cup {pending}) \ {NoSession}
    <2>1. CASE pending = NoSession /\ Len(stack') = n - 1
      BY <1>1, <1>2, <2>1 DEF OnLoan
    <2>2. CASE Len(stack') = n /\ stack'[n].link = pending
      BY <1>1, <1>2, <1>4, <1>5, <2>2 DEF OnLoan
    <2> QED BY <1>3, <2>1, <2>2
  <1>8. Top.link # NoSession => Top.link \notin {stack[i].link : i \in 1 .. n - 1}
    BY <1>5
  <1> QED BY <1>6, <1>7, <1>8

-----------------------------------------------------------------------------
\* The steps that neither borrow nor give back nor connect.

Unlent == UNCHANGED <<avail, pending, closed, conn, OnLoan>>

LEMMA UnlentSteps ==
    ASSUME TInv,
           \/ CatchFlow \/ CatchOther \/ Finish \/ Render \/ RequestThrows \/ ResponseFirst
           \/ \E s \in Sessions : \/ ResponseValid(s) \/ ResponseInvalid(s)
                                  \/ ResponseNotJson(s) \/ ReadThrows(s) \/ Answers(s)
           \/ UNCHANGED vars
    PROVE  Unlent
  <1>1. ASSUME UNCHANGED stack PROVE UNCHANGED OnLoan
    BY <1>1 DEF OnLoan
  <1>2. ASSUME CatchFlow \/ CatchOther \/ Finish \/ UNCHANGED vars PROVE Unlent
    BY <1>1, <1>2 DEF Unlent, CatchFlow, CatchOther, Finish, vars, main, pool, net
  <1>3. ASSUME Render \/ RequestThrows \/ ResponseFirst PROVE Unlent
    BY <1>1, <1>3 DEF Unlent, Render, RequestThrows, ResponseFirst, pool, net
  <1>4. ASSUME NEW s \in Sessions,
               ReadThrows(s) \/ ResponseInvalid(s) \/ ResponseNotJson(s) \/ Answers(s)
        PROVE  Unlent
    BY <1>1, <1>4 DEF Unlent, ReadThrows, ResponseInvalid, ResponseNotJson, Answers, Receive,
                      main, pool, net
  <1>5. ASSUME NEW s \in Sessions, ResponseValid(s) PROVE Unlent
    <2>1. /\ UNCHANGED <<avail, pending, closed, conn>> /\ stack' = Advanced(stack)
          /\ stack # <<>>
      BY <1>5, AtStepFacts DEF ResponseValid, Receive, pool, TInv, TypeOK
    <2> QED BY <2>1, LoansAdvanced DEF Unlent
  <1> QED BY <1>2, <1>3, <1>4, <1>5

LEMMA UnlentEntering ==
    ASSUME TInv, StartFlow \/ RunFlow \/ Block
    PROVE  Unlent
  <1>1. CASE StartFlow
    <2> DEFINE base == TopLevelBase(plan[next])
               body == Disk[DirOf(base)]
    <2>1. base \in Paths /\ body \in Bodies \cup {Malformed}
      <3>1. plan[next] \in Names /\ FlowDir(plan[next]) \in DOMAIN Disk
        BY <1>1, FlowAssumption DEF TInv, TypeOK, ControlOK, StartFlow
      <3> QED BY <3>1, TopLevelDir, FlowAssumption
    <2>2. UNCHANGED <<avail, pending, closed, conn>>
      BY <1>1 DEF StartFlow, pool, net
    <2> HIDE DEF base
    <2>3. \/ body # Malformed /\ Enter("flow", body, base, 1)
          \/ UNCHANGED stack
      BY <1>1 DEF StartFlow, base
    <2> HIDE DEF body
    <2>4. UNCHANGED OnLoan
      <3>1. 1 \in Nat \ {0} /\ "flow" \in {"flow", "subflow", "block"}
        OBVIOUS
      <3>2. UNCHANGED stack => UNCHANGED OnLoan
        BY DEF OnLoan
      <3> QED BY <2>1, <2>3, <3>1, <3>2, LoansEntered
    <2> QED BY <2>2, <2>4 DEF Unlent
  <1>2. CASE RunFlow
    <2> DEFINE base == SubflowBase(Top.base, StepNow.name)
               dir == DirOf(base)
    <2>1. stack # <<>> /\ Top \in Frame /\ StepNow \in Step /\ StepNow.op = "run_flow"
      BY <1>2, AtStepFacts DEF RunFlow, TInv, TypeOK
    <2>2. Top.base \in Paths /\ StepNow.name \in Names
      BY <2>1 DEF Frame, Step
    <2>3. base \in Paths /\ UNCHANGED <<avail, pending, closed, conn>>
      BY <1>2, <2>2, SubflowBaseIsPath DEF RunFlow, pool, net
    <2> HIDE DEF base
    <2>4. (Loadable(dir) /\ Enter("subflow", Disk[dir], base, 1)) \/ UNCHANGED stack
      BY <1>2 DEF RunFlow, base
    <2>5. Loadable(dir) => Disk[dir] \in Bodies
      BY FlowAssumption DEF Loadable
    <2> HIDE DEF dir
    <2>6. 1 \in Nat \ {0} /\ "subflow" \in {"flow", "subflow", "block"}
      OBVIOUS
    <2>7. UNCHANGED stack => UNCHANGED OnLoan
      BY DEF OnLoan
    <2> QED BY <2>3, <2>4, <2>5, <2>6, <2>7, LoansEntered DEF Unlent
  <1>3. CASE Block
    <2>1. stack # <<>> /\ Top \in Frame /\ StepNow \in Step /\ StepNow.op = "block"
      BY <1>3, AtStepFacts DEF Block, TInv, TypeOK
    <2>2. PICK n \in Repeats(StepNow) :
              stack' = Advanced(stack) \/ (n > 0 /\ Enter("block", StepNow.body, Top.base, n))
      BY <1>3 DEF Block
    <2>3. /\ StepNow.body \in Bodies /\ Top.base \in Paths
          /\ UNCHANGED <<avail, pending, closed, conn>>
      BY <1>3, <2>1 DEF Step, Frame, Block, pool, net
    <2>4. n \in Nat
      BY <2>1, <2>2, FlowAssumption DEF Repeats, Step
    <2>5. CASE n > 0 /\ Enter("block", StepNow.body, Top.base, n)
      <3>1. n \in Nat \ {0} /\ "block" \in {"flow", "subflow", "block"}
        BY <2>4, <2>5
      <3> QED BY <2>3, <2>5, <3>1, LoansEntered DEF Unlent
    <2>6. CASE stack' = Advanced(stack)
      BY <2>1, <2>3, <2>6, LoansAdvanced DEF Unlent
    <2> QED BY <2>2, <2>5, <2>6
  <1> QED BY <1>1, <1>2, <1>3
-----------------------------------------------------------------------------
\* Each step is one of Lending's, or invisible there.

\* The pool is only closed at the end.
Open == pc # "exit" => closed = {}

LEMMA OpenStep == TInv /\ Open /\ [Next]_vars => Open'
  <1> SUFFICES ASSUME TInv, Open, [Next]_vars PROVE Open'
    OBVIOUS
  <1>1. CASE Shutdown
    BY <1>1 DEF Shutdown, Open
  <1>2. CASE Environment \/ UNCHANGED vars
    <2>1. UNCHANGED <<pc, closed>>
      BY <1>2, EnvironmentTypes DEF vars, main, pool
    <2> QED BY <2>1 DEF Open
  <1>3. CASE Main /\ ~Shutdown
    <2>1. closed' = closed /\ (pc = "exit" => pc' = "exit")
      BY <1>3 DEF Main, StartFlow, CatchFlow, CatchOther, Finish, Render, RequestThrows, Borrow,
         Send, ResponseFirst, ResponseValid, ResponseInvalid, ResponseNotJson, ReadThrows, Receive,
         RunFlow, Block, EndOfSteps, UnwindFrame, AtStep, AtEnd, pool
    <2> QED BY <2>1 DEF Open, Main
  <1> QED BY <1>1, <1>2, <1>3 DEF Next, Ended

LEMMA LinkGivenBack ==
    ASSUME TInv, SessionsConserved, EndOfSteps \/ UnwindFrame
    PROVE  /\ UNCHANGED <<pending, closed, conn>> /\ pending = NoSession
           /\ GiveBack(Top.link) /\ Top.link \in Sessions \cup {NoSession}
           /\ Top.link # NoSession => Top.link \in OnLoan
           /\ OnLoan' = OnLoan \ {Top.link}
  <1>1. /\ UNCHANGED <<pending, closed, conn>> /\ pending = NoSession /\ GiveBack(Top.link)
        /\ stack # <<>>
    BY EndStack, UnwindStack DEF EndOfSteps, UnwindFrame, AtEnd, TInv, TypeOK, PoolOK, net
  <1>2. /\ Top.link \in Sessions \cup {NoSession}
        /\ Top.link \in {stack[i].link : i \in 1 .. Len(stack)}
    <2>1. Len(stack) \in 1 .. Len(stack) /\ Top \in Frame
      BY <1>1, TopIsFrame DEF TInv, TypeOK
    <2> QED BY <2>1 DEF Frame, Top
  <1>3. Top.link # NoSession => Top.link \in OnLoan
    BY <1>2, OnLoanDef
  <1>4. OnLoan' = (OnLoan \ {Top.link}) \cup ({pending} \ {NoSession})
    <2>1. /\ stack' \in Seq(Frame)
          /\ \/ Len(stack') = Len(stack) - 1
             \/ Len(stack') = Len(stack) /\ stack'[Len(stack)].link = pending
          /\ \A i \in 1 .. Len(stack) - 1 : stack'[i].link = stack[i].link
      <3>1. CASE EndOfSteps
        <4>1. \A i \in 1 .. Len(stack) - 1 : i <= Len(stack')
          BY <3>1, EndStack
        <4>2. \A i \in 1 .. Len(stack) - 1 : stack'[i].link = stack[i].link
          BY <3>1, <4>1, EndStack
        <4> QED BY <1>1, <3>1, <4>2, EndStack
      <3>2. CASE UnwindFrame
        BY <3>2, UnwindStack
      <3> QED BY <3>1, <3>2
    <2> QED BY <1>1, <2>1, LoansTop
  <1>5. OnLoan' = OnLoan \ {Top.link}
    BY <1>1, <1>4
  <1> QED BY <1>1, <1>2, <1>3, <1>5

LEMMA LendingStep ==
    TInv /\ SessionsConserved /\ Open /\ [Next]_vars => [Lender!Next]_(Lender!vars)
  <1> SUFFICES ASSUME TInv, SessionsConserved, Open, [Next]_vars
               PROVE  [Lender!Next]_(Lender!vars)
    OBVIOUS
  <1> DEFINE Up == {s \in Sessions : conn[s] \in {"open", "lost"}}
  <1>1. /\ Sessions = Lender!Sessions /\ NoSession = Lender!NoSession
        /\ avail \in Seq(Sessions) /\ conn \in [Sessions -> {"connecting", "open", "failed", "lost"}]
    BY DEF Sessions, Lender!Sessions, NoSession, Lender!NoSession, TInv, TypeOK, PoolOK, NetOK
  <1>2. ASSUME Unlent PROVE UNCHANGED Lender!vars
    BY <1>2 DEF Unlent, Lender!vars
  <1>3. CASE Borrow
    <2>1. /\ pc = "borrow" /\ avail # <<>> /\ pending' = Head(avail) /\ avail' = Tail(avail)
          /\ UNCHANGED <<stack, closed, conn>>
      BY <1>3 DEF Borrow, Dequeued, net
    <2>2. pending = NoSession /\ closed = {} /\ UNCHANGED OnLoan
      BY <2>1 DEF TInv, TypeOK, PoolOK, Open, OnLoan
    <2>3. Lender!Take
      BY <1>1, <2>1, <2>2 DEF Lender!Take
    <2> QED BY <2>3 DEF Lender!Next
  <1>4. CASE Send
    <2>1. /\ pending \in Sessions /\ conn[pending] \in {"open", "lost"}
          /\ pending' = NoSession /\ UNCHANGED <<closed, conn>> /\ GiveBack(Top.link)
      BY <1>4, SendStack DEF Send, Established
    <2>2. /\ Top.link \in Sessions \cup {NoSession}
          /\ Top.link # NoSession => Top.link \in OnLoan
      <3>1. Len(stack) \in 1 .. Len(stack) /\ Top \in Frame /\ Top = stack[Len(stack)]
        BY <1>4, SendStack, TopIsFrame DEF TInv, TypeOK, Top
      <3> QED BY <3>1, OnLoanDef DEF Frame
    <2>3. OnLoan' = (OnLoan \ {Top.link}) \cup {pending}
      BY <1>4, <2>1, SendStack, SessionCount, LoansTop
    <2>4. avail' = IF Top.link = NoSession THEN avail ELSE Append(avail, Top.link)
      BY <2>1 DEF GiveBack
    <2>5. Lender!Lend(Top.link)
      BY <1>1, <2>1, <2>2, <2>3, <2>4 DEF Lender!Lend
    <2> QED BY <1>1, <2>2, <2>5 DEF Lender!Next
  <1>5. CASE EndOfSteps \/ UnwindFrame
    <2>1. /\ UNCHANGED <<pending, closed, conn>>
          /\ GiveBack(Top.link) /\ Top.link \in Sessions \cup {NoSession}
          /\ Top.link # NoSession => Top.link \in OnLoan
          /\ OnLoan' = OnLoan \ {Top.link}
      BY <1>5, LinkGivenBack
    <2>2. CASE Top.link = NoSession
      <3>1. avail' = avail /\ OnLoan' = OnLoan
        BY <2>1, <2>2, OnLoanDef DEF GiveBack
      <3> QED BY <1>2, <2>1, <3>1 DEF Unlent
    <2>3. CASE Top.link # NoSession
      <3>1. Lender!GiveBack(Top.link)
        BY <2>1, <2>3 DEF GiveBack, Lender!GiveBack
      <3> QED BY <1>1, <2>1, <2>3, <3>1 DEF Lender!Next
    <2> QED BY <2>2, <2>3
  <1>6. CASE Shutdown
    <2>1. /\ pc = "shutdown" /\ closed' = ToSet(avail) /\ avail' = <<>>
          /\ UNCHANGED <<pending, conn, stack>> /\ stack = <<>> /\ pending = NoSession
      BY <1>6 DEF Shutdown, TInv, TypeOK, PoolOK, Shape, net
    <2>2. closed = {} /\ OnLoan = {} /\ OnLoan' = {}
      BY <2>1 DEF Open, OnLoan
    <2>3. avail # <<>>
      <3>1. 1 \in ToSet(avail)
        BY <2>1, SessionCount DEF SessionsConserved, Linked, Sessions
      <3> QED BY <3>1 DEF ToSet
    <2> DEFINE n == Len(avail)
    <2>4. n \in 1 .. Len(avail)
      BY <1>1, <2>3
    <2>5. SubSeq(avail, 1, n) = avail /\ SubSeq(avail, n + 1, n) = <<>>
      BY <1>1
    <2>6. Lender!Close(n)
      BY <2>1, <2>2, <2>5, <1>1 DEF Lender!Close, ToSet, Range, Lender!Range
    <2> QED BY <2>4, <2>6 DEF Lender!Next
  <1>7. ASSUME NEW s \in Sessions, Connects(s) PROVE [Lender!Next]_(Lender!vars)
    <2>1. /\ UNCHANGED <<avail, pending, closed, stack>>
          /\ conn' = [conn EXCEPT ![s] = "open"]
      BY <1>7 DEF Connects, Becomes, main, pool
    <2>2. UNCHANGED OnLoan /\ Up' = Up \cup {s}
      BY <1>1, <2>1 DEF OnLoan
    <2>3. Lender!Establish(s)
      BY <2>1, <2>2 DEF Lender!Establish
    <2> QED BY <1>1, <2>3 DEF Lender!Next
  <1>8. ASSUME NEW s \in Sessions, ConnectFails(s) \/ Loses(s) PROVE UNCHANGED Lender!vars
    <2>1. /\ UNCHANGED <<avail, pending, closed, stack>>
          /\ \/ conn[s] = "connecting" /\ conn' = [conn EXCEPT ![s] = "failed"]
             \/ conn[s] = "open" /\ conn' = [conn EXCEPT ![s] = "lost"]
      BY <1>8 DEF ConnectFails, Loses, Becomes, main, pool
    <2>2. UNCHANGED OnLoan /\ Up' = Up
      BY <1>1, <2>1 DEF OnLoan
    <2> QED BY <2>1, <2>2 DEF Lender!vars
  <1> QED
    BY <1>2, <1>3, <1>4, <1>5, <1>6, <1>7, <1>8, UnlentSteps, UnlentEntering
    DEF Next, Main, Environment, Ended

\* The runner, its steps and their links use the sessions of the pool as
\* Lending allows, for any scripts and any number of sessions.
THEOREM LendingKept == Spec => ImplementsLending
  <1>1. Init => Open
    BY DEF Init, Open
  <1>2. Init => Lender!Init
    BY DEF Init, Lender!Init, Sessions, Lender!Sessions, NoSession, Lender!NoSession, OnLoan
  <1>3. Spec => []Open
    BY <1>1, OpenStep, TypeInvariance, PTL DEF Spec
  <1> QED
    BY <1>2, <1>3, LendingStep, ConservationInvariance, PTL
    DEF Spec, ImplementsLending, Lender!Spec
=============================================================================
