-------------------------- MODULE FlowRunnerProofs --------------------------
(***************************************************************************)
(* Theorems about FlowRunner, for any scripts, any plan, any pool size and *)
(* any faults.                                                             *)
(***************************************************************************)
EXTENDS FlowRunner, TLAPS, FiniteSetTheorems, SequenceTheorems

-----------------------------------------------------------------------------
\* How the call stack changes: a frame on top of it, its top frame replaced or
\* advanced, its top frame taken away.

LEMMA Pushed ==
    ASSUME NEW st \in Seq(Frame), NEW f \in Frame
    PROVE  /\ Append(st, f) \in Seq(Frame) /\ Append(st, f) # <<>>
           /\ Len(Append(st, f)) = Len(st) + 1
           /\ \A i \in 1 .. Len(st) : Append(st, f)[i] = st[i]
           /\ Append(st, f)[Len(st) + 1] = f
  OBVIOUS

LEMMA Replaced ==
    ASSUME NEW st \in Seq(Frame), st # <<>>, NEW f \in Frame,
           NEW new, new = [st EXCEPT ![Len(st)] = f]
    PROVE  /\ new \in Seq(Frame) /\ new # <<>> /\ Len(new) = Len(st)
           /\ \A i \in 1 .. Len(st) - 1 : new[i] = st[i]
           /\ new[Len(st)] = f
  <1>1. Len(st) \in 1 .. Len(st)
    OBVIOUS
  <1> QED BY <1>1

\* The next step: links, requests, bodies and kinds stay as they are.
LEMMA Moved ==
    ASSUME NEW st \in Seq(Frame), st # <<>>
    PROVE  /\ Advanced(st) \in Seq(Frame) /\ Advanced(st) # <<>>
           /\ Len(Advanced(st)) = Len(st)
           /\ \A i \in 1 .. Len(st) : /\ Advanced(st)[i].link = st[i].link
                                      /\ Advanced(st)[i].req = st[i].req
                                      /\ Advanced(st)[i].body = st[i].body
                                      /\ Advanced(st)[i].kind = st[i].kind
           /\ \A i \in 1 .. Len(st) - 1 : Advanced(st)[i] = st[i]
           /\ Advanced(st)[Len(st)].at = st[Len(st)].at + 1
  <1> DEFINE f == [st[Len(st)] EXCEPT !.at = @ + 1]
  <1>1. st[Len(st)] \in Frame /\ Len(st) \in 1 .. Len(st)
    OBVIOUS
  <1>2. /\ f \in Frame /\ f.link = st[Len(st)].link
        /\ f.req = st[Len(st)].req /\ f.kind = st[Len(st)].kind
        /\ f.body = st[Len(st)].body /\ f.at = st[Len(st)].at + 1
    BY <1>1 DEF Frame
  <1>3. Advanced(st) = [st EXCEPT ![Len(st)] = f]
    BY DEF Advanced
  <1> HIDE DEF f
  <1>4. /\ Advanced(st) \in Seq(Frame) /\ Advanced(st) # <<>> /\ Len(Advanced(st)) = Len(st)
        /\ \A i \in 1 .. Len(st) - 1 : Advanced(st)[i] = st[i]
        /\ Advanced(st)[Len(st)] = f
    BY <1>2, <1>3, Replaced
  <1> QED BY <1>1, <1>2, <1>4

LEMMA Popped ==
    ASSUME NEW S, NEW st \in Seq(S), st # <<>>
    PROVE  /\ Front(st) \in Seq(S) /\ Len(Front(st)) = Len(st) - 1
           /\ \A i \in 1 .. Len(st) - 1 : Front(st)[i] = st[i]
  <1>1. \A i \in 1 .. Len(st) - 1 : st[i] \in S
    OBVIOUS
  <1>2. Len(st) - 1 \in Nat
    OBVIOUS
  <1>3. /\ SubSeq(st, 1, Len(st) - 1) \in Seq(S)
        /\ Len(SubSeq(st, 1, Len(st) - 1)) = Len(st) - 1
        /\ \A i \in 1 .. Len(st) - 1 : SubSeq(st, 1, Len(st) - 1)[i] = st[i]
    <2> DEFINE n == Len(st) - 1
    <2>1. n \in Nat /\ \A i \in 1 .. n : st[i] \in S
      BY <1>1, <1>2
    <2> HIDE DEF n
    <2>2. /\ SubSeq(st, 1, n) \in Seq(S)
          /\ Len(SubSeq(st, 1, n)) = IF 1 <= n THEN n - 1 + 1 ELSE 0
          /\ \A i \in 1 .. n - 1 + 1 : SubSeq(st, 1, n)[i] = st[1 + i - 1]
      <3>1. n \in Int /\ 1 \in Int
        BY <2>1
      <3> QED BY ONLY <3>1, <2>1, SubSeqProperties
    <2>3. /\ SubSeq(st, 1, n) \in Seq(S) /\ Len(SubSeq(st, 1, n)) = n
          /\ \A i \in 1 .. n : SubSeq(st, 1, n)[i] = st[i]
      BY <2>1, <2>2
    <2> QED BY <2>3 DEF n
  <1> QED BY <1>3 DEF Front

-----------------------------------------------------------------------------
\* The shape of the call stack in each control state: flows at the bottom and
\* only there, no frame between two flows, a request being served in "borrow" and
\* "establish".
Shape ==
    /\ pc \in {"run", "borrow", "establish", "unwind"} => next >= 2
    /\ pc \in {"schedule", "shutdown", "exit"} => stack = <<>>
    /\ \A i \in 1 .. Len(stack) : stack[i].kind = "flow" <=> i = 1
    /\ pc \in {"borrow", "establish"} => Top.at <= Len(StepsOf[Top.body]) /\ StepNow.op = "request"

TInv == TypeOK /\ Shape

LEMMA TopIsFrame ==
    ASSUME StackOK, stack # <<>>
    PROVE  Len(stack) \in 1 .. Len(stack) /\ Top \in Frame
  <1>1. Len(stack) \in 1 .. Len(stack)
    BY DEF StackOK
  <1> QED BY <1>1 DEF StackOK, Top

LEMMA StepIsStep ==
    ASSUME StackOK, stack # <<>>, Top.at <= Len(StepsOf[Top.body])
    PROVE  StepNow \in Step
  <1>1. Top \in Frame
    BY TopIsFrame
  <1>2. StepsOf[Top.body] \in Seq(Step) /\ Top.at \in 1 .. Len(StepsOf[Top.body])
    BY <1>1, FlowAssumption DEF Frame
  <1> QED BY <1>2 DEF StepNow

LEMMA AtStepFacts ==
    ASSUME StackOK, NEW op, AtStep(op)
    PROVE  pc = "run" /\ stack # <<>> /\ Top \in Frame /\ StepNow \in Step /\ StepNow.op = op
  BY TopIsFrame, StepIsStep DEF AtStep, StackOK

LEMMA NewFrameIsFrame ==
    ASSUME NEW kind \in {"flow", "subflow", "block"}, NEW body \in Bodies,
           NEW base \in Paths, NEW left \in Nat \ {0}
    PROVE  NewFrame(kind, body, base, left) \in Frame
  BY DEF NewFrame, Frame, NoSession, NoRequest, Request

\* A session given back is one of the sessions.
LEMMA GivenBack ==
    ASSUME PoolOK, NEW s \in Sessions \cup {NoSession}, GiveBack(s)
    PROVE  avail' \in Seq(Sessions)
  <1>1. avail \in Seq(Sessions)
    BY DEF PoolOK
  <1>2. CASE s = NoSession
    BY <1>1, <1>2 DEF GiveBack
  <1>3. CASE s # NoSession
    <2>1. s \in Sessions /\ avail' = Append(avail, s)
      BY <1>3 DEF GiveBack
    <2> QED BY <1>1, <2>1
  <1> QED BY <1>2, <1>3

\* An exception thrown by a step or by the loader: the main thread unwinds.
LEMMA ThrowTypes ==
    ASSUME ControlOK, StackOK, NEW kind \in {"flow", "other"}, NEW cause \in Causes,
           Throw(kind, cause), UNCHANGED <<plan, status, reports>>, next' \in 1 .. Len(plan) + 1
    PROVE  ControlOK' /\ pc' = "unwind"
  <1>1. <<cause>> \in Seq(Causes)
    OBVIOUS
  <1>2. NonRootKinds \in Seq(Causes)
    <2> DEFINE n == Len(stack) - 1
    <2>1. CASE stack = <<>>
      <3>1. NonRootKinds = [i \in 1 .. 0 |-> stack[Len(stack) + 1 - i].kind]
        BY <2>1 DEF NonRootKinds
      <3> QED BY <3>1
    <2>2. CASE stack # <<>>
      <3>1. n \in Nat
        BY <2>2 DEF StackOK
      <3>2. \A i \in 1 .. n : stack[Len(stack) + 1 - i].kind \in Causes
        <4> TAKE i \in 1 .. n
        <4>1. Len(stack) + 1 - i \in 1 .. Len(stack)
          BY <3>1 DEF StackOK
        <4>2. stack[Len(stack) + 1 - i] \in Frame
          BY <4>1 DEF StackOK
        <4> QED BY <4>2 DEF Frame, Causes
      <3> QED BY <3>1, <3>2 DEF NonRootKinds
    <2> QED BY <2>1, <2>2
  <1>3. trail' \in Seq(Causes)
    BY <1>1, <1>2 DEF Throw
  <1>4. exc' \in [kind : {"none", "flow", "other"}, issues : Seq(Causes)] /\ exc'.kind # "none"
    BY <1>1 DEF Throw
  <1> QED BY <1>3, <1>4 DEF Throw, ControlOK

LEMMA ReportTypes ==
    ASSUME ControlOK, next >= 2, NEW ok \in BOOLEAN, NEW issues \in Seq(Causes),
           ReportFlow(ok, issues)
    PROVE  reports' \in Seq([name : Names, ok : BOOLEAN, issues : Seq(Causes)])
  <1> DEFINE R == [name : Names, ok : BOOLEAN, issues : Seq(Causes)]
             r == [name |-> plan[next - 1], ok |-> ok, issues |-> issues]
  <1>1. plan \in Seq(Names) /\ next - 1 \in 1 .. Len(plan)
    BY FlowAssumption DEF ControlOK
  <1>2. plan[next - 1] \in Names
    BY <1>1
  <1>3. r \in R
    BY <1>2
  <1>4. reports \in Seq(R) /\ reports' = Append(reports, r)
    BY DEF ControlOK, ReportFlow
  <1> HIDE DEF r, R
  <1>5. reports' \in Seq(R)
    BY <1>3, <1>4
  <1> QED BY <1>5 DEF R

LEMMA Pair ==
    ASSUME NEW S, NEW a \in S, NEW b \in S
    PROVE  <<a, b>> \in Seq(S)
  OBVIOUS

LEMMA FrontOfAppend ==
    ASSUME NEW S, NEW s \in Seq(S), NEW e \in S
    PROVE  /\ Append(s, e) \in Seq(S) /\ Append(s, e) # <<>>
           /\ Last(Append(s, e)) = e /\ Front(Append(s, e)) = s
  <1> DEFINE new == Append(s, e)
  <1>1. new \in Seq(S) /\ new # <<>> /\ Len(new) = Len(s) + 1 /\ new[Len(new)] = e
    OBVIOUS
  <1>2. \A i \in 1 .. Len(s) : new[i] = s[i]
    OBVIOUS
  <1> HIDE DEF new
  <1>3. /\ Front(new) \in Seq(S) /\ Len(Front(new)) = Len(new) - 1
        /\ \A i \in 1 .. Len(new) - 1 : Front(new)[i] = new[i]
    BY <1>1, Popped
  <1>4. Front(new) \in Seq(S) /\ Len(Front(new)) = Len(s)
        /\ \A i \in 1 .. Len(s) : Front(new)[i] = s[i]
    BY <1>1, <1>2, <1>3
  <1>5. Front(new) = s
    BY <1>4, SeqEqual
  <1> QED BY <1>1, <1>5 DEF Last, new

\* The crawler's directories are there (FlowAssumption): the trailing slash of a
\* top-level flow's base path does not matter.
LEMMA TopLevelDir ==
    ASSUME NEW name \in Names
    PROVE  TopLevelBase(name) \in Paths /\ DirOf(TopLevelBase(name)) = FlowDir(name)
  <1> DEFINE C == Names \cup {"flows", ""}
  <1>1. FlowDir(name) \in Seq(C) /\ "" \in C
    <2>1. DataDir \in Seq(C)
      BY FlowAssumption DEF Paths
    <2>2. "flows" \in C /\ name \in C /\ "" \in C
      OBVIOUS
    <2> HIDE DEF C
    <2>3. <<"flows", name>> \in Seq(C)
      BY <2>2, Pair
    <2> QED BY <2>1, <2>2, <2>3, ConcatProperties DEF FlowDir
  <1> HIDE DEF C
  <1>2. /\ TopLevelBase(name) \in Seq(C) /\ TopLevelBase(name) # <<>>
        /\ Last(TopLevelBase(name)) = "" /\ Front(TopLevelBase(name)) = FlowDir(name)
    BY <1>1, FrontOfAppend DEF TopLevelBase
  <1> QED BY <1>2 DEF DirOf, Paths, C

LEMMA SubflowBaseIsPath ==
    ASSUME NEW base \in Paths, NEW name \in Names
    PROVE  /\ SubflowBase(base, name) \in Paths
           /\ SubflowBase(base, name) # <<>> /\ Last(SubflowBase(base, name)) = name
  <1> DEFINE C == Names \cup {"flows", ""}
  <1>1. base \in Seq(C) /\ name \in C
    BY DEF Paths
  <1> HIDE DEF C
  <1>2. ASSUME NEW p \in Seq(C) PROVE ParentPath(p) \in Seq(C)
    <2>1. CASE p = <<>>
      <3>1. Front(p) = <<>>
        BY <2>1, SubSeqEmpty DEF Front
      <3> QED BY <3>1 DEF ParentPath
    <2>2. CASE p # <<>>
      BY <2>2, Popped DEF ParentPath
    <2> QED BY <2>1, <2>2
  <1>3. ParentPath(ParentPath(base)) \in Seq(C)
    BY <1>1, <1>2
  <1>4. /\ SubflowBase(base, name) \in Seq(C)
        /\ SubflowBase(base, name) # <<>> /\ Last(SubflowBase(base, name)) = name
    BY <1>1, <1>3, FrontOfAppend DEF SubflowBase
  <1> QED BY <1>4 DEF Paths, C

-----------------------------------------------------------------------------
\* Types and shape are kept by every step.

LEMMA StartFlowTypes == TInv /\ StartFlow => TInv'
  <1> SUFFICES ASSUME TInv, StartFlow PROVE TInv'
    OBVIOUS
  <1> DEFINE base == TopLevelBase(plan[next])
             body == Disk[DirOf(base)]
  <1>1. /\ stack = <<>> /\ pc = "schedule" /\ pending = NoSession
        /\ next' = next + 1 /\ next' \in 2 .. Len(plan) + 1
    BY FlowAssumption DEF TInv, TypeOK, ControlOK, PoolOK, Shape, StartFlow
  <1>2. base \in Paths /\ body \in Bodies \cup {Malformed}
    <2>1. plan[next] \in Names /\ FlowDir(plan[next]) \in DOMAIN Disk
      BY FlowAssumption DEF TInv, TypeOK, ControlOK, StartFlow
    <2> QED BY <2>1, TopLevelDir, FlowAssumption
  <1>3. NetOK'
    BY DEF StartFlow, TInv, TypeOK, NetOK, net
  <1>4. CASE body # Malformed
    <2> DEFINE f == NewFrame("flow", body, base, 1)
    <2>1. f \in Frame /\ f.kind = "flow"
      BY <1>2, <1>4, NewFrameIsFrame DEF NewFrame
    <2>2. pc' = "run" /\ stack' = Append(stack, f) /\ UNCHANGED <<exc, trail>>
      BY <1>4 DEF StartFlow, Enter
    <2> HIDE DEF f
    <2>3. stack' \in Seq(Frame) /\ stack' # <<>> /\ Len(stack') = 1 /\ stack'[1] = f
      BY <1>1, <2>1, <2>2, Pushed DEF TInv, TypeOK, StackOK
    <2>4. ControlOK'
      BY <1>1, <2>2 DEF StartFlow, TInv, TypeOK, ControlOK
    <2>5. PoolOK'
      BY <1>1, <2>2 DEF StartFlow, TInv, TypeOK, PoolOK, pool
    <2>6. StackOK' /\ Shape'
      BY <1>1, <2>1, <2>2, <2>3 DEF StackOK, Shape
    <2> QED BY <1>3, <2>4, <2>5, <2>6 DEF TInv, TypeOK
  <1>5. CASE body = Malformed
    <2>1. Throw("other", "yaml") /\ UNCHANGED stack
      BY <1>5 DEF StartFlow
    <2>2. ControlOK' /\ pc' = "unwind"
      BY <1>1, <2>1, ThrowTypes DEF TInv, TypeOK, Causes, StartFlow
    <2>3. PoolOK'
      BY <1>1, <2>2 DEF StartFlow, TInv, TypeOK, PoolOK, pool
    <2>4. StackOK' /\ Shape'
      BY <1>1, <2>1, <2>2 DEF TInv, TypeOK, StackOK, Shape
    <2> QED BY <1>3, <2>2, <2>3, <2>4 DEF TInv, TypeOK
  <1> QED BY <1>4, <1>5

\* The steps of the main thread that leave the call stack alone.
LEMMA ControlTypes ==
    TInv /\ (CatchFlow \/ CatchOther \/ Finish \/ Shutdown) => TInv'
  <1> SUFFICES ASSUME TInv, CatchFlow \/ CatchOther \/ Finish \/ Shutdown PROVE TInv'
    OBVIOUS
  <1> USE DEF TInv, TypeOK
  <1>1. NetOK'
    BY DEF NetOK, CatchFlow, CatchOther, Finish, Shutdown, net, ghosts
  <1>2. StackOK' /\ Shape'
    BY DEF StackOK, Shape, CatchFlow, CatchOther, Finish, Shutdown, Caught, GiveUp
  <1>3. PoolOK'
    <2>1. ToSet(avail) \subseteq Sessions /\ <<>> \in Seq(Sessions)
      BY DEF ToSet, PoolOK
    <2> QED BY <2>1 DEF PoolOK, CatchFlow, CatchOther, Finish, Shutdown, GiveUp, pool
  <1>4. ControlOK'
    <2>1. NoException \in [kind : {"none", "flow", "other"}, issues : Seq(Causes)]
          /\ NoException.kind = "none"
      BY DEF NoException
    <2>2. CASE CatchFlow
      <3>1. next >= 2 /\ exc.issues \in Seq(Causes)
        BY <2>2 DEF CatchFlow, Shape, ControlOK
      <3>2. reports' \in Seq([name : Names, ok : BOOLEAN, issues : Seq(Causes)])
        BY <2>2, <3>1, ReportTypes DEF CatchFlow
      <3> QED BY <2>1, <2>2, <3>2 DEF CatchFlow, Caught, ControlOK, ghosts
    <2>3. CASE CatchOther
      BY <2>1, <2>3 DEF CatchOther, GiveUp, Caught, ControlOK, ghosts
    <2>4. CASE Finish \/ Shutdown
      BY <2>4 DEF Finish, Shutdown, ControlOK, ghosts
    <2> QED BY <2>2, <2>3, <2>4
  <1> QED BY <1>1, <1>2, <1>3, <1>4

LEMMA RenderTypes == TInv /\ Render => TInv'
  <1> SUFFICES ASSUME TInv, Render PROVE TInv'
    OBVIOUS
  <1> USE DEF TInv, TypeOK
  <1>1. /\ pc = "run" /\ pc' = "borrow" /\ stack # <<>> /\ StepNow.op = "request"
        /\ Top.at <= Len(StepsOf[Top.body])
        /\ UNCHANGED <<plan, next, stack, pending, exc, reports, status, pool, net, ghosts>>
    BY AtStepFacts DEF Render, AtStep
  <1>2. ControlOK' /\ PoolOK' /\ NetOK'
    BY <1>1 DEF ControlOK, PoolOK, NetOK, pool, net, ghosts
  <1>3. StackOK' /\ Shape'
    BY <1>1 DEF StackOK, Shape, Top, StepNow
  <1> QED BY <1>2, <1>3

LEMMA BorrowTypes == TInv /\ Borrow => TInv'
  <1> SUFFICES ASSUME TInv, Borrow PROVE TInv'
    OBVIOUS
  <1> USE DEF TInv, TypeOK
  <1>1. /\ avail # <<>> /\ pending' = Head(avail) /\ avail' = Tail(avail)
        /\ pc = "borrow" /\ pc' = "establish"
    BY DEF Borrow, Dequeued
  <1>2. PoolOK'
    <2>1. Head(avail) \in Sessions /\ Tail(avail) \in Seq(Sessions)
      BY <1>1 DEF PoolOK
    <2>2. Head(avail) # NoSession
      BY <2>1 DEF Sessions, NoSession
    <2> QED BY <1>1, <2>1, <2>2 DEF Borrow, PoolOK
  <1>3. ControlOK' /\ NetOK'
    BY <1>1 DEF Borrow, ControlOK, NetOK, net, ghosts
  <1>4. StackOK' /\ Shape'
    BY <1>1 DEF Borrow, StackOK, Shape, Top, StepNow
  <1> QED BY <1>2, <1>3, <1>4

\* What Send does to the call stack: the frame gets the session, and moves on.
LEMMA SendStack ==
    ASSUME TInv, Send
    PROVE  /\ Top \in Frame /\ stack # <<>> /\ pending \in Sessions
           /\ stack' \in Seq(Frame) /\ stack' # <<>> /\ Len(stack') = Len(stack)
           /\ \A i \in 1 .. Len(stack) : stack'[i].kind = stack[i].kind /\ stack'[i].body = stack[i].body
           /\ \A i \in 1 .. Len(stack) - 1 : /\ stack'[i].link = stack[i].link
                                             /\ stack'[i].req = stack[i].req
                                             /\ stack'[i] = stack[i]
           /\ stack'[Len(stack)].link = pending
           /\ stack'[Len(stack)].at = Top.at + 1
           /\ stack'[Len(stack)].req.stream = StepNow.stream
           /\ stack'[Len(stack)].req.n = sent + 1
           /\ owed' \in [Sessions -> SUBSET Request]
           /\ \A s \in Sessions : \A q \in owed'[s] :
                  q \in owed[s] \/ (s = pending /\ q = stack'[Len(stack)].req)
  <1> DEFINE r == [n |-> sent + 1, flow |-> next - 1, stream |-> StepNow.stream]
             f == [Top EXCEPT !.link = pending, !.req = r]
             st == WithTop(f)
  <1> USE DEF TInv, TypeOK
  <1>1. stack # <<>> /\ Top \in Frame /\ StepNow \in Step /\ StepNow.op = "request"
    BY TopIsFrame, StepIsStep DEF Send, StackOK, Shape
  <1>2. pending \in Sessions
    BY DEF Send, PoolOK
  <1>3. r \in Request /\ r.n = sent + 1 /\ r.stream = StepNow.stream
    <2>1. StepNow.stream \in BOOLEAN
      BY <1>1 DEF Step
    <2>2. sent + 1 \in Nat /\ next - 1 \in Nat
      BY DEF Send, NetOK, ControlOK, Shape
    <2> QED BY <2>1, <2>2 DEF Request
  <1> HIDE DEF r
  <1>4. /\ f \in Frame /\ f.kind = Top.kind /\ f.link = pending /\ f.req = r
        /\ f.body = Top.body /\ f.at = Top.at
    BY <1>1, <1>2, <1>3 DEF Frame
  <1> HIDE DEF f
  <1>5. /\ st \in Seq(Frame) /\ st # <<>> /\ Len(st) = Len(stack)
        /\ \A i \in 1 .. Len(stack) - 1 : st[i] = stack[i]
        /\ st[Len(stack)] = f
    BY <1>1, <1>4, Replaced DEF WithTop, StackOK
  <1>6. stack' = Advanced(st)
    BY DEF Send, f, r
  <1> HIDE DEF st
  <1>7. /\ Advanced(st) \in Seq(Frame) /\ Advanced(st) # <<>> /\ Len(Advanced(st)) = Len(st)
        /\ \A i \in 1 .. Len(st) : /\ Advanced(st)[i].kind = st[i].kind
                                   /\ Advanced(st)[i].link = st[i].link
                                   /\ Advanced(st)[i].req = st[i].req
                                   /\ Advanced(st)[i].body = st[i].body
        /\ \A i \in 1 .. Len(st) - 1 : Advanced(st)[i] = st[i]
        /\ Advanced(st)[Len(st)].at = st[Len(st)].at + 1
    BY <1>5, Moved
  <1>8. Len(stack) \in 1 .. Len(stack) /\ stack[Len(stack)] = Top
    BY <1>1, TopIsFrame DEF Top
  <1>9. \A i \in 1 .. Len(stack) : st[i].kind = stack[i].kind /\ st[i].body = stack[i].body
    BY <1>4, <1>5, <1>8
  <1>10. owed' \in [Sessions -> SUBSET Request]
    <2>1. owed' = owed \/ owed' = [owed EXCEPT ![pending] = @ \cup {r}]
      BY DEF Send, r
    <2>2. owed \in [Sessions -> SUBSET Request]
      BY DEF NetOK
    <2> QED BY <1>2, <1>3, <2>1, <2>2
  <1>11. \A s \in Sessions : \A q \in owed'[s] : q \in owed[s] \/ (s = pending /\ q = r)
    <2>1. owed' = owed \/ owed' = [owed EXCEPT ![pending] = @ \cup {r}]
      BY DEF Send, r
    <2> QED BY <1>2, <2>1 DEF NetOK
  <1>12. stack'[Len(stack)].req = r
    BY <1>4, <1>5, <1>6, <1>7, <1>8
  <1> QED BY <1>1, <1>2, <1>3, <1>4, <1>5, <1>6, <1>7, <1>8, <1>9, <1>10, <1>11, <1>12

LEMMA SendTypes == TInv /\ Send => TInv'
  <1> SUFFICES ASSUME TInv, Send PROVE TInv'
    OBVIOUS
  <1> USE DEF TInv, TypeOK
  <1>1. pc = "establish" /\ pc' = "run" /\ pending' = NoSession /\ UNCHANGED <<next, closed>>
    BY DEF Send
  <1>2. StackOK' /\ Shape'
    BY <1>1, SendStack DEF StackOK, Shape
  <1>3. NetOK'
    BY SendStack DEF Send, NetOK, ghosts
  <1>4. ControlOK'
    BY <1>1 DEF Send, ControlOK, ghosts
  <1>5. PoolOK'
    <2>1. Top.link \in Sessions \cup {NoSession}
      BY SendStack DEF Frame
    <2>2. avail' \in Seq(Sessions)
      BY <2>1, GivenBack DEF Send
    <2> QED BY <1>1, <2>2 DEF PoolOK
  <1> QED BY <1>2, <1>3, <1>4, <1>5

\* A step throws: neither the call stack nor any connection changes yet.
LEMMA StepThrowsTypes ==
    ASSUME TInv, pc = "run", NEW kind \in {"flow", "other"}, NEW cause \in Causes,
           Throw(kind, cause), UNCHANGED <<plan, next, stack, pending, reports, status, pool>>
    PROVE  ControlOK' /\ StackOK' /\ PoolOK' /\ Shape'
  <1> USE DEF TInv, TypeOK
  <1>1. next' \in 1 .. Len(plan) + 1
    BY DEF ControlOK
  <1>2. ControlOK' /\ pc' = "unwind"
    BY <1>1, ThrowTypes
  <1>3. StackOK' /\ Shape'
    BY <1>2 DEF StackOK, Shape
  <1>4. PoolOK'
    BY <1>2 DEF PoolOK, pool
  <1> QED BY <1>2, <1>3, <1>4

LEMMA ThrowingTypes ==
    TInv /\ (RequestThrows \/ ResponseFirst \/ \E s \in Sessions : ReadThrows(s)) => TInv'
  <1> SUFFICES ASSUME TInv, RequestThrows \/ ResponseFirst \/ \E s \in Sessions : ReadThrows(s)
               PROVE TInv'
    OBVIOUS
  <1>1. PICK kind \in {"flow", "other"}, cause \in Causes : Throw(kind, cause)
    BY DEF RequestThrows, ResponseFirst, ReadThrows, Causes
  <1>2. /\ pc = "run"
        /\ UNCHANGED <<plan, next, stack, pending, reports, status, pool, net, got>>
    BY DEF RequestThrows, ResponseFirst, ReadThrows, AtStep
  <1>3. ControlOK' /\ StackOK' /\ PoolOK' /\ Shape'
    BY <1>1, <1>2, StepThrowsTypes
  <1>4. NetOK'
    BY <1>2 DEF TInv, TypeOK, NetOK, net
  <1> QED BY <1>3, <1>4 DEF TInv, TypeOK

LEMMA ReceiveTypes ==
    ASSUME TInv, NEW s \in Sessions, Receive(s)
    PROVE  /\ NetOK' /\ stack # <<>> /\ pc = "run" /\ pending' = pending
           /\ UNCHANGED <<plan, next, pending, reports, status, pool>>
  <1> USE DEF TInv, TypeOK
  <1>1. pc = "run" /\ stack # <<>> /\ Top \in Frame
    BY AtStepFacts DEF Receive
  <1>2. Top.req \in Request
    BY <1>1 DEF Frame
  <1>3. inbox[s] \in Seq(Request) /\ inbox[s] # <<>>
    BY DEF Receive, NetOK
  <1>4. Head(inbox[s]) \in Request /\ Tail(inbox[s]) \in Seq(Request)
    BY <1>3
  <1>5. inbox' \in [Sessions -> Seq(Request)]
    BY <1>4 DEF Receive, Consumed, NetOK
  <1>6. got' \in [want : Request, msg : Request]
    BY <1>2, <1>4 DEF Receive
  <1>7. UNCHANGED <<plan, next, pending, reports, status, pool, conn, owed, sent>>
    BY DEF Receive
  <1>8. NetOK'
    BY <1>5, <1>6, <1>7 DEF NetOK
  <1> QED BY <1>1, <1>7, <1>8

LEMMA ResponseTypes ==
    ASSUME TInv, NEW s \in Sessions,
           ResponseValid(s) \/ ResponseInvalid(s) \/ ResponseNotJson(s)
    PROVE  TInv'
  <1> USE DEF TInv, TypeOK
  <1>1. /\ NetOK' /\ stack # <<>> /\ pc = "run"
        /\ UNCHANGED <<plan, next, pending, reports, status, pool>>
    BY ReceiveTypes DEF ResponseValid, ResponseInvalid, ResponseNotJson
  <1>2. CASE ResponseValid(s)
    <2>1. stack' = Advanced(stack) /\ UNCHANGED <<pc, exc, trail>>
      BY <1>2 DEF ResponseValid
    <2>2. /\ stack' \in Seq(Frame) /\ stack' # <<>> /\ Len(stack') = Len(stack)
          /\ \A i \in 1 .. Len(stack) : stack'[i].kind = stack[i].kind
      BY <1>1, <2>1, Moved DEF StackOK
    <2>3. StackOK' /\ Shape'
      BY <1>1, <2>1, <2>2 DEF StackOK, Shape
    <2>4. ControlOK' /\ PoolOK'
      BY <1>1, <2>1 DEF ControlOK, PoolOK, pool
    <2> QED BY <1>1, <2>3, <2>4
  <1>3. CASE ResponseInvalid(s) \/ ResponseNotJson(s)
    <2>1. PICK kind \in {"flow", "other"}, cause \in Causes : Throw(kind, cause) /\ UNCHANGED stack
      BY <1>3 DEF ResponseInvalid, ResponseNotJson, Causes
    <2> QED BY <1>1, <2>1, StepThrowsTypes
  <1> QED BY <1>2, <1>3

\* A frame is pushed on a stack that has one.
LEMMA EnterTypes ==
    ASSUME TInv, pc = "run", NEW kind \in {"subflow", "block"}, NEW body \in Bodies,
           NEW base \in Paths, NEW left \in Nat \ {0}, Enter(kind, body, base, left),
           UNCHANGED <<plan, next, pending, exc, trail, reports, status, pool>>
    PROVE  ControlOK' /\ StackOK' /\ PoolOK' /\ Shape'
  <1> DEFINE f == NewFrame(kind, body, base, left)
  <1> USE DEF TInv, TypeOK
  <1>1. f \in Frame /\ f.kind = kind
    BY NewFrameIsFrame DEF NewFrame
  <1>2. pc' = "run" /\ stack' = Append(stack, f)
    BY DEF Enter
  <1> HIDE DEF f
  <1>3. /\ stack' \in Seq(Frame) /\ stack' # <<>> /\ Len(stack') = Len(stack) + 1
        /\ \A i \in 1 .. Len(stack) : stack'[i] = stack[i]
        /\ stack'[Len(stack) + 1] = f
    BY <1>1, <1>2, Pushed DEF StackOK
  <1>4. StackOK'
    BY <1>3 DEF StackOK
  <1>5. Shape'
    <2>1. stack # <<>> /\ Len(stack) \in Nat \ {0}
      BY DEF StackOK
    <2>2. \A i \in 1 .. Len(stack') : stack'[i].kind = "flow" <=> i = 1
      BY <1>1, <1>3, <2>1 DEF Shape
    <2> QED BY <1>2, <2>2 DEF Shape
  <1>6. ControlOK' /\ PoolOK'
    BY <1>2 DEF ControlOK, PoolOK, pool
  <1> QED BY <1>4, <1>5, <1>6

LEMMA RunFlowTypes == TInv /\ RunFlow => TInv'
  <1> SUFFICES ASSUME TInv, RunFlow PROVE TInv'
    OBVIOUS
  <1> DEFINE base == SubflowBase(Top.base, StepNow.name)
             dir == DirOf(base)
  <1> USE DEF TInv, TypeOK
  <1>1. pc = "run" /\ stack # <<>> /\ Top \in Frame /\ StepNow \in Step /\ StepNow.op = "run_flow"
    BY AtStepFacts DEF RunFlow
  <1>2. base \in Paths
    <2>1. Top.base \in Paths /\ StepNow.name \in Names
      BY <1>1 DEF Frame, Step
    <2> QED BY <2>1, SubflowBaseIsPath
  <1>3. NetOK' /\ UNCHANGED <<plan, next, pending, reports, pool>>
    BY DEF RunFlow, NetOK, net
  <1> HIDE DEF base
  <1>4. \/ Loadable(dir) /\ Enter("subflow", Disk[dir], base, 1) /\ UNCHANGED <<exc, trail, status>>
        \/ Throw("other", "yaml") /\ UNCHANGED <<stack, status>>
        \/ pc' = "aborted" /\ status' = "aborted" /\ UNCHANGED <<stack, exc, trail>>
    BY DEF RunFlow, base
  <1>5. CASE Loadable(dir) /\ Enter("subflow", Disk[dir], base, 1) /\ UNCHANGED <<exc, trail, status>>
    <2>1. Disk[dir] \in Bodies
      BY <1>5, FlowAssumption DEF Loadable
    <2>2. 1 \in Nat \ {0}
      OBVIOUS
    <2> QED BY <1>1, <1>2, <1>3, <1>5, <2>1, <2>2, EnterTypes
  <1>6. CASE Throw("other", "yaml") /\ UNCHANGED <<stack, status>>
    <2>1. "yaml" \in Causes
      BY DEF Causes
    <2> QED BY <1>1, <1>3, <1>6, <2>1, StepThrowsTypes
  <1>7. CASE pc' = "aborted" /\ status' = "aborted" /\ UNCHANGED <<stack, exc, trail>>
    BY <1>1, <1>3, <1>7 DEF ControlOK, StackOK, PoolOK, Shape, pool
  <1> QED BY <1>4, <1>5, <1>6, <1>7

LEMMA BlockTypes == TInv /\ Block => TInv'
  <1> SUFFICES ASSUME TInv, Block PROVE TInv'
    OBVIOUS
  <1> USE DEF TInv, TypeOK
  <1>1. pc = "run" /\ stack # <<>> /\ Top \in Frame /\ StepNow \in Step /\ StepNow.op = "block"
    BY AtStepFacts DEF Block
  <1>2. /\ NetOK'
        /\ UNCHANGED <<plan, next, pending, exc, trail, reports, status, pool>>
    BY DEF Block, NetOK, net, ghosts
  <1>3. PICK n \in Repeats(StepNow) :
            \/ n = 0 /\ stack' = Advanced(stack) /\ UNCHANGED pc
            \/ n > 0 /\ Enter("block", StepNow.body, Top.base, n)
    BY DEF Block
  <1>4. StepNow.body \in Bodies /\ Top.base \in Paths
    BY <1>1 DEF Step, Frame
  <1>5. n \in Nat
    BY <1>1, <1>3, FlowAssumption DEF Repeats, Step
  <1>6. CASE n = 0 /\ stack' = Advanced(stack) /\ UNCHANGED pc
    <2>1. /\ stack' \in Seq(Frame) /\ stack' # <<>> /\ Len(stack') = Len(stack)
          /\ \A i \in 1 .. Len(stack) : stack'[i].kind = stack[i].kind
      BY <1>1, <1>6, Moved DEF StackOK
    <2> QED BY <1>1, <1>2, <1>6, <2>1 DEF ControlOK, StackOK, PoolOK, Shape, pool
  <1>7. CASE n > 0 /\ Enter("block", StepNow.body, Top.base, n)
    <2>1. n \in Nat \ {0}
      BY <1>5, <1>7
    <2> QED BY <1>1, <1>2, <1>4, <1>7, <2>1, EnterTypes
  <1> QED BY <1>3, <1>6, <1>7

\* What the end of a frame does to the call stack: the frames below keep their
\* links and requests, and a frame that stays, for the next iteration, has none.
LEMMA EndStack ==
    ASSUME TInv, EndOfSteps
    PROVE  /\ pc = "run" /\ stack # <<>> /\ Top \in Frame
           /\ Top = stack[Len(stack)] /\ Len(stack) \in Nat \ {0}
           /\ stack' \in Seq(Frame)
           /\ \A i \in 1 .. Len(stack) - 1 : i <= Len(stack') =>
                  /\ stack'[i].kind = stack[i].kind /\ stack'[i].link = stack[i].link
                  /\ stack'[i].req = stack[i].req /\ stack'[i].body = stack[i].body
           /\ \/ Len(stack') = Len(stack) - 1
              \/ /\ Len(stack') = Len(stack) /\ stack'[Len(stack)].link = NoSession
                 /\ stack'[Len(stack)].req = NoRequest
                 /\ stack'[Len(stack)].kind = stack[Len(stack)].kind
                 /\ stack'[Len(stack)].body = stack[Len(stack)].body
           /\ \/ Len(stack) = 1 /\ pc' = "schedule" /\ ReportFlow(TRUE, <<>>) /\ stack' = <<>>
              \/ pc' = "run" /\ UNCHANGED reports /\ stack' # <<>>
  <1> USE DEF TInv, TypeOK
  <1>1. /\ pc = "run" /\ stack # <<>> /\ Top \in Frame /\ Len(stack) \in 1 .. Len(stack)
        /\ Top = stack[Len(stack)] /\ Len(stack) \in Nat \ {0}
    BY TopIsFrame DEF EndOfSteps, AtEnd, StackOK, Top
  <1>2. Top.kind = "flow" <=> Len(stack) = 1
    BY <1>1 DEF Shape
  <1>3. /\ Front(stack) \in Seq(Frame) /\ Len(Front(stack)) = Len(stack) - 1
        /\ \A i \in 1 .. Len(stack) - 1 : Front(stack)[i] = stack[i]
    BY <1>1, Popped DEF StackOK
  <1>4. \/ /\ Top.kind = "flow" /\ ReportFlow(TRUE, <<>>)
           /\ pc' = "schedule" /\ stack' = Front(stack)
        \/ /\ Top.kind # "flow" /\ stack' = Advanced(Front(stack)) /\ UNCHANGED <<pc, reports>>
        \/ /\ Top.kind = "block" /\ Top.left > 1
           /\ stack' = WithTop(NewFrame("block", Top.body, Top.base, Top.left - 1))
           /\ UNCHANGED <<pc, reports>>
    BY DEF EndOfSteps
  <1>5. CASE /\ Top.kind = "flow" /\ ReportFlow(TRUE, <<>>)
             /\ pc' = "schedule" /\ stack' = Front(stack)
    <2>1. Len(stack) = 1 /\ stack' \in Seq(Frame) /\ Len(stack') = 0
      BY <1>1, <1>2, <1>3, <1>5
    <2>2. stack' = <<>>
      BY <2>1
    <2>3. Len(stack') = Len(stack) - 1
      BY <2>1
    <2>4. \A i \in 1 .. Len(stack) - 1 : FALSE
      BY <2>1
    <2> QED BY <1>1, <1>5, <2>1, <2>2, <2>3, <2>4
  <1>6. CASE Top.kind # "flow" /\ stack' = Advanced(Front(stack)) /\ UNCHANGED <<pc, reports>>
    <2>1. Front(stack) # <<>>
      BY <1>1, <1>2, <1>3, <1>6
    <2>2. /\ stack' \in Seq(Frame) /\ stack' # <<>> /\ Len(stack') = Len(stack) - 1
          /\ \A i \in 1 .. Len(stack) - 1 : /\ stack'[i].link = Front(stack)[i].link
                                            /\ stack'[i].req = Front(stack)[i].req
                                            /\ stack'[i].body = Front(stack)[i].body
                                            /\ stack'[i].kind = Front(stack)[i].kind
      BY <1>3, <1>6, <2>1, Moved
    <2> QED BY <1>1, <1>3, <1>6, <2>2
  <1>7. CASE /\ Top.kind = "block" /\ Top.left > 1
             /\ stack' = WithTop(NewFrame("block", Top.body, Top.base, Top.left - 1))
             /\ UNCHANGED <<pc, reports>>
    <2> DEFINE f == NewFrame("block", Top.body, Top.base, Top.left - 1)
    <2>1. /\ f \in Frame /\ f.kind = "block" /\ f.link = NoSession /\ f.req = NoRequest
          /\ f.body = Top.body
      <3>1. Top.body \in Bodies /\ Top.base \in Paths /\ Top.left - 1 \in Nat \ {0}
        BY <1>1, <1>7 DEF Frame
      <3> QED BY <3>1, NewFrameIsFrame DEF NewFrame
    <2>2. stack' = [stack EXCEPT ![Len(stack)] = f] /\ UNCHANGED <<pc, reports>>
      BY <1>7 DEF WithTop
    <2> HIDE DEF f
    <2>3. /\ stack' \in Seq(Frame) /\ stack' # <<>> /\ Len(stack') = Len(stack)
          /\ \A i \in 1 .. Len(stack) - 1 : stack'[i] = stack[i]
          /\ stack'[Len(stack)] = f
      BY <1>1, <2>1, <2>2, Replaced DEF StackOK
    <2>4. /\ stack'[Len(stack)].kind = stack[Len(stack)].kind
          /\ stack'[Len(stack)].body = stack[Len(stack)].body
          /\ stack'[Len(stack)].link = NoSession /\ stack'[Len(stack)].req = NoRequest
      BY <1>1, <1>7, <2>1, <2>3
    <2>5. pc' = "run"
      BY <1>1, <2>2
    <2> QED BY <1>1, <2>2, <2>3, <2>4, <2>5
  <1> QED BY <1>4, <1>5, <1>6, <1>7

LEMMA EndTypes == TInv /\ EndOfSteps => TInv'
  <1> SUFFICES ASSUME TInv, EndOfSteps PROVE TInv'
    OBVIOUS
  <1> USE DEF TInv, TypeOK
  <1>1. /\ NetOK' /\ UNCHANGED <<plan, next, pending, exc, trail, status, closed>>
        /\ GiveBack(Top.link)
    BY DEF EndOfSteps, NetOK, net, ghosts
  <1>2. StackOK' /\ Shape'
    <2>1. StackOK'
      BY EndStack DEF StackOK
    <2>2. \A i \in 1 .. Len(stack') : stack'[i].kind = stack[i].kind /\ i \in 1 .. Len(stack)
      <3> TAKE i \in 1 .. Len(stack')
      <3>1. Len(stack') \in Nat /\ Len(stack) \in Nat
        BY EndStack
      <3>2. CASE Len(stack') = Len(stack) - 1
        <4>1. i \in 1 .. Len(stack) - 1 /\ i <= Len(stack')
          BY <3>1, <3>2
        <4> QED BY <3>1, <4>1, EndStack
      <3>3. CASE /\ Len(stack') = Len(stack)
                 /\ stack'[Len(stack)].kind = stack[Len(stack)].kind
        <4>1. i = Len(stack) \/ (i \in 1 .. Len(stack) - 1 /\ i <= Len(stack'))
          BY <3>1, <3>3
        <4> QED BY <3>1, <3>3, <4>1, EndStack
      <3> QED BY <3>2, <3>3, EndStack
    <2>3. \A i \in 1 .. Len(stack') : stack'[i].kind = "flow" <=> i = 1
      BY <2>2 DEF Shape
    <2>4. next' >= 2 /\ pc' \in {"run", "schedule"} /\ (pc' = "schedule" => stack' = <<>>)
      BY <1>1, EndStack DEF Shape
    <2>5. (pc' = "run" => stack' # <<>>)
      BY EndStack
    <2> QED BY <2>1, <2>3, <2>4, <2>5 DEF Shape, StackOK
  <1>3. PoolOK'
    <2>1. Top.link \in Sessions \cup {NoSession} /\ pc = "run" /\ pc' # "establish"
      BY EndStack DEF Frame
    <2>2. avail' \in Seq(Sessions)
      BY <1>1, <2>1, GivenBack
    <2> QED BY <1>1, <2>1, <2>2 DEF PoolOK
  <1>4. ControlOK'
    <2>1. pc = "run" /\ pc' \in {"run", "schedule"}
      BY EndStack
    <2>2. reports' \in Seq([name : Names, ok : BOOLEAN, issues : Seq(Causes)])
      <3>1. reports \in Seq([name : Names, ok : BOOLEAN, issues : Seq(Causes)])
        BY DEF ControlOK
      <3>2. <<>> \in Seq(Causes) /\ TRUE \in BOOLEAN /\ next >= 2
        BY <2>1 DEF Shape
      <3>3. UNCHANGED reports \/ ReportFlow(TRUE, <<>>)
        BY EndStack
      <3> QED BY <3>1, <3>2, <3>3, ReportTypes
    <2> QED BY <1>1, <2>1, <2>2 DEF ControlOK
  <1> QED BY <1>1, <1>2, <1>3, <1>4

LEMMA UnwindStack ==
    ASSUME TInv, UnwindFrame
    PROVE  /\ pc = "unwind" /\ pc' = "unwind" /\ stack # <<>> /\ Top \in Frame
           /\ Top = stack[Len(stack)] /\ Len(stack) \in Nat \ {0}
           /\ stack' \in Seq(Frame) /\ Len(stack') = Len(stack) - 1
           /\ \A i \in 1 .. Len(stack) - 1 : stack'[i] = stack[i]
  <1> USE DEF TInv, TypeOK
  <1>1. /\ pc = "unwind" /\ pc' = "unwind" /\ stack # <<>> /\ Top \in Frame
        /\ Top = stack[Len(stack)] /\ Len(stack) \in Nat \ {0} /\ stack' = Front(stack)
    BY TopIsFrame DEF UnwindFrame, StackOK, Top
  <1> QED BY <1>1, Popped DEF StackOK

LEMMA UnwindTypes == TInv /\ UnwindFrame => TInv'
  <1> SUFFICES ASSUME TInv, UnwindFrame PROVE TInv'
    OBVIOUS
  <1> USE DEF TInv, TypeOK
  <1>1. /\ NetOK' /\ UNCHANGED <<pc, plan, next, pending, reports, status, closed, trail>>
        /\ GiveBack(Top.link)
    BY DEF UnwindFrame, NetOK, net, ghosts
  <1>2. StackOK' /\ Shape'
    BY <1>1, UnwindStack DEF StackOK, Shape
  <1>3. PoolOK'
    <2>1. Top.link \in Sessions \cup {NoSession}
      BY UnwindStack DEF Frame
    <2>2. avail' \in Seq(Sessions)
      BY <1>1, <2>1, GivenBack
    <2> QED BY <1>1, <2>2 DEF PoolOK
  <1>4. ControlOK'
    <2>1. Top.kind \in Causes /\ exc.issues \in Seq(Causes)
      BY UnwindStack DEF Frame, Causes, ControlOK
    <2>2. Append(exc.issues, Top.kind) \in Seq(Causes)
      BY <2>1
    <2>3. exc' = exc \/ exc' = [exc EXCEPT !.issues = Append(@, Top.kind)]
      BY DEF UnwindFrame, WithIssue
    <2> QED BY <1>1, <2>2, <2>3 DEF ControlOK
  <1> QED BY <1>1, <1>2, <1>3, <1>4

LEMMA EnvironmentTypes == TInv /\ Environment => TInv' /\ UNCHANGED <<main, pool>>
  <1> SUFFICES ASSUME TInv, NEW s \in Sessions,
                      Connects(s) \/ ConnectFails(s) \/ Loses(s) \/ Answers(s)
               PROVE  TInv' /\ UNCHANGED <<main, pool>>
    BY DEF Environment
  <1> USE DEF TInv, TypeOK
  <1>1. UNCHANGED <<main, pool, sent, ghosts>>
    BY DEF Connects, ConnectFails, Loses, Becomes, Answers
  <1>2. CASE Connects(s) \/ ConnectFails(s) \/ Loses(s)
    BY <1>1, <1>2 DEF Connects, ConnectFails, Loses, Becomes, NetOK, main, pool, ghosts,
                      ControlOK, StackOK, PoolOK, Shape, Top, StepNow
  <1>3. CASE Answers(s)
    <2>1. PICK r \in owed[s] :
              /\ inbox' = [inbox EXCEPT ![s] = Append(@, r)]
              /\ owed' = IF r.stream THEN owed ELSE [owed EXCEPT ![s] = @ \ {r}]
      BY <1>3 DEF Answers
    <2>2. r \in Request /\ Append(inbox[s], r) \in Seq(Request)
      BY DEF NetOK
    <2>3. inbox' \in [Sessions -> Seq(Request)]
      BY <2>1, <2>2 DEF NetOK
    <2>4. owed' \in [Sessions -> SUBSET Request]
      <3>1. owed \in [Sessions -> SUBSET Request]
        BY DEF NetOK
      <3>2. [owed EXCEPT ![s] = @ \ {r}] \in [Sessions -> SUBSET Request]
        BY <3>1
      <3> QED BY <2>1, <3>1, <3>2
    <2>5. NetOK'
      BY <1>1, <1>3, <2>3, <2>4 DEF NetOK, Answers, ghosts
    <2> QED BY <1>1, <2>5 DEF main, pool, ghosts, ControlOK, StackOK, PoolOK, Shape, Top, StepNow
  <1> QED BY <1>1, <1>2, <1>3

LEMMA StutterTypes == TInv /\ UNCHANGED vars => TInv'
  BY DEF TInv, TypeOK, vars, main, pool, net, ghosts, ControlOK, StackOK, PoolOK, NetOK,
         Shape, Top, StepNow

LEMMA TypeStep == TInv /\ [Next]_vars => TInv'
  <1> SUFFICES ASSUME TInv, [Next]_vars PROVE TInv'
    OBVIOUS
  <1> QED
    BY StartFlowTypes, ControlTypes, RenderTypes, BorrowTypes, SendTypes, ThrowingTypes,
       ResponseTypes, RunFlowTypes, BlockTypes, EndTypes, UnwindTypes, EnvironmentTypes, StutterTypes
    DEF Next, Main, Ended

LEMMA TypeInit == Init => TInv
  <1> SUFFICES ASSUME Init PROVE TInv
    OBVIOUS
  <1>1. /\ <<>> \in Seq(Frame) /\ <<>> \in Seq(Causes) /\ <<>> \in Seq(Request)
        /\ <<>> \in Seq([name : Names, ok : BOOLEAN, issues : Seq(Causes)])
    OBVIOUS
  <1>2. ControlOK
    <2>1. plan \in Seq(Names)
      BY FlowAssumption DEF Init
    <2>2. next \in 1 .. Len(plan) + 1
      BY <2>1 DEF Init
    <2> QED BY <1>1, <2>2 DEF Init, ControlOK, NoException
  <1>3. StackOK /\ Shape
    BY <1>1 DEF Init, StackOK, Shape
  <1>4. PoolOK
    <2>1. [i \in Sessions |-> i] \in Seq(Sessions)
      <3>1. PoolSize \in Nat
        BY FlowAssumption
      <3> QED BY <3>1 DEF Sessions
    <2> QED BY <2>1 DEF Init, PoolOK
  <1>5. NetOK
    <2>1. NoRequest \in Request
      BY DEF NoRequest, Request
    <2> QED BY <1>1, <2>1 DEF Init, NetOK
  <1> QED BY <1>2, <1>3, <1>4, <1>5 DEF TInv, TypeOK

LEMMA TypeInvariance == Spec => []TInv
  BY TypeInit, TypeStep, PTL DEF Spec

\* Every variable keeps its type, with an exception in flight exactly while the
\* main thread unwinds and a session in hand exactly while it waits for it.
THEOREM TypeCorrect == Spec => []TypeOK
  BY TypeInvariance, PTL DEF TInv
=============================================================================
