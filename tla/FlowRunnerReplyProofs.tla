------------------------- MODULE FlowRunnerReplyProofs -------------------------
(***************************************************************************)
(* What a flow reads and what it reports, for any scripts, any plan, any   *)
(* pool size and any faults: no response step takes the message another    *)
(* frame waits for, scripts in pairs read their own replies, and a         *)
(* FailureEvent tells where the failure happened.                          *)
(* The runner keeps the promise of FlowSchedule to its user.               *)
(***************************************************************************)
EXTENDS FlowRunnerPoolProofs

-----------------------------------------------------------------------------
\* Where the messages for a frame can be.

\* What the server still owes on a session, and what has arrived there.
Messages(s) == owed[s] \cup {inbox[s][k] : k \in 1 .. Len(inbox[s])}

\* What is caused by a frame's request is on the frame's session.
Routed ==
    /\ \A i \in 1 .. Len(stack) : stack[i].req.n <= sent
    /\ \A s \in Sessions : \A r \in Messages(s) :
          /\ r.n \in 1 .. sent
          /\ \A i \in 1 .. Len(stack) : stack[i].req = r => stack[i].link = s

\* Frames that stay keep session and request; new ones have sent nothing.
FramesKept ==
    \A i \in 1 .. Len(stack') :
        \/ stack'[i].req = NoRequest /\ stack'[i].link = NoSession
        \/ /\ i \in 1 .. Len(stack)
           /\ stack'[i].req = stack[i].req /\ stack'[i].link = stack[i].link

LEMMA KeptWhenEntering ==
    ASSUME TInv, NEW kind \in {"flow", "subflow", "block"}, NEW body \in Bodies,
           NEW base \in Paths, NEW left \in Nat \ {0}, Enter(kind, body, base, left)
    PROVE  FramesKept
  <1> DEFINE f == NewFrame(kind, body, base, left)
  <1>1. f \in Frame /\ f.req = NoRequest /\ f.link = NoSession
    BY NewFrameIsFrame DEF NewFrame
  <1>2. stack' = Append(stack, f)
    BY DEF Enter
  <1> HIDE DEF f
  <1>3. stack \in Seq(Frame) /\ Len(stack) \in Nat
    BY DEF TInv, TypeOK, StackOK
  <1>4. /\ Len(stack') = Len(stack) + 1
        /\ \A i \in 1 .. Len(stack) : stack'[i] = stack[i]
        /\ stack'[Len(stack) + 1] = f
    BY <1>1, <1>2, <1>3, Pushed
  <1>5. \A i \in 1 .. Len(stack') : i \in 1 .. Len(stack) \/ i = Len(stack) + 1
    BY <1>3, <1>4
  <1> QED BY <1>1, <1>4, <1>5 DEF FramesKept

LEMMA KeptWhenAdvancing ==
    ASSUME TInv, stack # <<>>, stack' = Advanced(stack)
    PROVE  FramesKept
  <1>1. stack \in Seq(Frame)
    BY DEF TInv, TypeOK, StackOK
  <1> QED BY <1>1, Moved DEF FramesKept

LEMMA KeptByEnd == ASSUME TInv, EndOfSteps PROVE FramesKept
  <1>1. Len(stack) \in Nat \ {0} /\ Len(stack') \in Nat
    BY EndStack
  <1>2. \A i \in 1 .. Len(stack) - 1 : i <= Len(stack') =>
            stack'[i].link = stack[i].link /\ stack'[i].req = stack[i].req
    BY EndStack
  <1>3. CASE Len(stack') = Len(stack) - 1
    <2>1. \A i \in 1 .. Len(stack') :
              i \in 1 .. Len(stack) - 1 /\ i <= Len(stack') /\ i \in 1 .. Len(stack)
      BY <1>1, <1>3
    <2> QED BY <1>2, <2>1 DEF FramesKept
  <1>4. CASE /\ Len(stack') = Len(stack)
             /\ stack'[Len(stack)].req = NoRequest /\ stack'[Len(stack)].link = NoSession
    <2>1. \A i \in 1 .. Len(stack') :
              \/ i = Len(stack)
              \/ i \in 1 .. Len(stack) - 1 /\ i <= Len(stack') /\ i \in 1 .. Len(stack)
      BY <1>1, <1>4
    <2> QED BY <1>2, <1>4, <2>1 DEF FramesKept
  <1> QED BY <1>3, <1>4, EndStack

LEMMA FramesMove == ASSUME TInv, [Next]_vars PROVE Send \/ FramesKept
  <1>1. UNCHANGED stack => FramesKept
    BY DEF FramesKept
  <1>2. CASE CatchFlow \/ CatchOther \/ Finish \/ Shutdown \/ Render \/ RequestThrows \/ Borrow
             \/ ResponseFirst \/ UNCHANGED vars
    BY <1>1, <1>2 DEF CatchFlow, CatchOther, Finish, Shutdown, Render, RequestThrows,
                      Borrow, ResponseFirst, vars, main
  <1>3. ASSUME NEW s \in Sessions, ResponseInvalid(s) \/ ResponseNotJson(s) \/ ReadThrows(s)
        PROVE  FramesKept
    BY <1>1, <1>3 DEF ResponseInvalid, ResponseNotJson, ReadThrows
  <1>4. ASSUME NEW s \in Sessions, ResponseValid(s) PROVE FramesKept
    <2>1. stack # <<>> /\ stack' = Advanced(stack)
      BY <1>4, AtStepFacts DEF ResponseValid, Receive, TInv, TypeOK
    <2> QED BY <2>1, KeptWhenAdvancing
  <1>5. CASE Environment
    BY <1>1, <1>5, EnvironmentTypes DEF main
  <1>6. CASE EndOfSteps
    BY <1>6, KeptByEnd
  <1>7. CASE UnwindFrame
    <2>1. Len(stack) \in Nat \ {0} /\ Len(stack') = Len(stack) - 1
      BY <1>7, UnwindStack
    <2>2. \A i \in 1 .. Len(stack') : i \in 1 .. Len(stack) - 1 /\ i \in 1 .. Len(stack)
      BY <2>1
    <2> QED BY <1>7, <2>2, UnwindStack DEF FramesKept
  <1>8. CASE StartFlow
    <2> DEFINE base == TopLevelBase(plan[next])
               body == Disk[DirOf(base)]
    <2>1. base \in Paths /\ body \in Bodies \cup {Malformed}
      <3>1. plan[next] \in Names /\ FlowDir(plan[next]) \in DOMAIN Disk
        BY <1>8, FlowAssumption DEF TInv, TypeOK, ControlOK, StartFlow
      <3> QED BY <3>1, TopLevelDir, FlowAssumption
    <2> HIDE DEF base
    <2>2. (body # Malformed /\ Enter("flow", body, base, 1)) \/ UNCHANGED stack
      BY <1>8 DEF StartFlow, base
    <2> HIDE DEF body
    <2>3. 1 \in Nat \ {0} /\ "flow" \in {"flow", "subflow", "block"}
      OBVIOUS
    <2> QED BY <1>1, <2>1, <2>2, <2>3, KeptWhenEntering
  <1>9. CASE RunFlow
    <2> DEFINE base == SubflowBase(Top.base, StepNow.name)
               dir == DirOf(base)
    <2>1. Top.base \in Paths /\ StepNow.name \in Names
      BY <1>9, AtStepFacts DEF RunFlow, TInv, TypeOK, Frame, Step
    <2>2. base \in Paths
      BY <2>1, SubflowBaseIsPath
    <2> HIDE DEF base
    <2>3. (Loadable(dir) /\ Enter("subflow", Disk[dir], base, 1)) \/ UNCHANGED stack
      BY <1>9 DEF RunFlow, base
    <2>4. Loadable(dir) => Disk[dir] \in Bodies
      BY FlowAssumption DEF Loadable
    <2> HIDE DEF dir
    <2>5. 1 \in Nat \ {0} /\ "subflow" \in {"flow", "subflow", "block"}
      OBVIOUS
    <2> QED BY <1>1, <2>2, <2>3, <2>4, <2>5, KeptWhenEntering
  <1>10. CASE Block
    <2>1. stack # <<>> /\ Top \in Frame /\ StepNow \in Step /\ StepNow.op = "block"
      BY <1>10, AtStepFacts DEF Block, TInv, TypeOK
    <2>2. PICK n \in Repeats(StepNow) :
              stack' = Advanced(stack) \/ (n > 0 /\ Enter("block", StepNow.body, Top.base, n))
      BY <1>10 DEF Block
    <2>3. /\ StepNow.body \in Bodies /\ Top.base \in Paths /\ n \in Nat
          /\ "block" \in {"flow", "subflow", "block"}
      BY <2>1, <2>2, FlowAssumption DEF Step, Frame, Repeats
    <2>4. n > 0 => n \in Nat \ {0}
      BY <2>3
    <2> QED BY <2>1, <2>2, <2>3, <2>4, KeptWhenAdvancing, KeptWhenEntering
  <1> QED BY <1>2, <1>3, <1>4, <1>5, <1>6, <1>7, <1>8, <1>9, <1>10 DEF Next, Main, Ended

\* Only Send makes new messages, in the end: the others move or consume them.
LEMMA MessagesMove ==
    ASSUME TInv, [Next]_vars
    PROVE  Send \/ (sent' = sent /\ \A s \in Sessions : Messages(s)' \subseteq Messages(s))
  <1> DEFINE Goal == sent' = sent /\ \A s \in Sessions : Messages(s)' \subseteq Messages(s)
  <1>1. /\ inbox \in [Sessions -> Seq(Request)] /\ owed \in [Sessions -> SUBSET Request]
    BY DEF TInv, TypeOK, NetOK
  <1>2. UNCHANGED <<sent, owed, inbox>> => Goal
    BY DEF Messages
  <1>3. ASSUME NEW s \in Sessions, Receive(s) PROVE Goal
    <2>1. /\ inbox[s] \in Seq(Request) /\ inbox[s] # <<>> /\ UNCHANGED <<owed, sent>>
          /\ inbox' = [inbox EXCEPT ![s] = Tail(@)]
      BY <1>1, <1>3 DEF Receive, Consumed
    <2>2. \A k \in 1 .. Len(Tail(inbox[s])) :
              k + 1 \in 1 .. Len(inbox[s]) /\ Tail(inbox[s])[k] = inbox[s][k + 1]
      BY <2>1, HeadTailProperties
    <2>3. ASSUME NEW u \in Sessions PROVE Messages(u)' \subseteq Messages(u)
      BY <1>1, <2>1, <2>2 DEF Messages
    <2> QED BY <2>1, <2>3
  <1>4. ASSUME NEW s \in Sessions, Answers(s) PROVE Goal
    <2>1. PICK r \in owed[s] :
              /\ inbox' = [inbox EXCEPT ![s] = Append(@, r)]
              /\ owed' = IF r.stream THEN owed ELSE [owed EXCEPT ![s] = @ \ {r}]
      BY <1>4 DEF Answers
    <2>2. sent' = sent /\ inbox[s] \in Seq(Request) /\ r \in Request
      BY <1>1, <1>4 DEF Answers
    <2>3. \A k \in 1 .. Len(Append(inbox[s], r)) :
              \/ k \in 1 .. Len(inbox[s]) /\ Append(inbox[s], r)[k] = inbox[s][k]
              \/ Append(inbox[s], r)[k] = r
      BY <2>2
    <2>4. \A u \in Sessions : owed'[u] \subseteq owed[u]
      BY <1>1, <2>1
    <2>5. ASSUME NEW u \in Sessions PROVE Messages(u)' \subseteq Messages(u)
      <3>1. CASE u = s
        <4>1. inbox'[s] = Append(inbox[s], r)
          BY <1>1, <2>1
        <4> QED BY <2>3, <2>4, <3>1, <4>1 DEF Messages
      <3>2. CASE u # s
        <4>1. inbox'[u] = inbox[u]
          BY <1>1, <2>1, <3>2
        <4> QED BY <2>4, <4>1 DEF Messages
      <3> QED BY <3>1, <3>2
    <2> QED BY <2>2, <2>5
  <1> SUFFICES ASSUME ~Send PROVE Goal
    OBVIOUS
  <1> HIDE DEF Goal
  <1>5. CASE Main
    <2>1. ASSUME NEW s \in Sessions,
                 \/ ResponseValid(s) \/ ResponseInvalid(s) \/ ResponseNotJson(s) \/ ReadThrows(s)
          PROVE  Goal
      BY <1>2, <1>3, <2>1 DEF ResponseValid, ResponseInvalid, ResponseNotJson, ReadThrows, net
    <2>2. ASSUME ~\E s \in Sessions : \/ ResponseValid(s) \/ ResponseInvalid(s)
                                      \/ ResponseNotJson(s) \/ ReadThrows(s)
          PROVE  UNCHANGED <<sent, owed, inbox>>
      BY <1>5, <2>2 DEF Main, StartFlow, CatchFlow, CatchOther, Finish, Shutdown, Render,
         RequestThrows, Borrow, ResponseFirst, RunFlow, Block, EndOfSteps, UnwindFrame, net
    <2> QED BY <1>2, <2>1, <2>2
  <1>6. CASE Environment
    <2>1. ASSUME NEW s \in Sessions, Connects(s) \/ ConnectFails(s) \/ Loses(s)
          PROVE  UNCHANGED <<sent, owed, inbox>>
      BY <2>1 DEF Connects, ConnectFails, Loses, Becomes
    <2> QED BY <1>2, <1>4, <1>6, <2>1 DEF Environment
  <1>7. CASE UNCHANGED vars
    BY <1>2, <1>7 DEF vars, net
  <1> QED BY <1>5, <1>6, <1>7 DEF Next, Ended

LEMMA RoutedBySend == ASSUME TInv, Routed, Send PROVE Routed'
  <1> DEFINE n == Len(stack)
             q == stack'[n].req
  <1>1. /\ sent \in Nat /\ sent' = sent + 1 /\ inbox' = inbox
        /\ owed \in [Sessions -> SUBSET Request]
    BY DEF Send, TInv, TypeOK, NetOK
  <1>2. /\ n \in Nat \ {0} /\ Len(stack') = n /\ q.n = sent + 1
        /\ \A i \in 1 .. n - 1 : stack'[i].link = stack[i].link /\ stack'[i].req = stack[i].req
        /\ stack'[n].link = pending
        /\ \A s \in Sessions : \A r \in owed'[s] : r \in owed[s] \/ (s = pending /\ r = q)
    <2>1. n \in Nat \ {0}
      BY SendStack DEF TInv, TypeOK, StackOK
    <2> QED BY <2>1, SendStack
  <1>3. \A i \in 1 .. n : stack[i].req \in Request
    <2>1. \A i \in 1 .. n : stack[i] \in Frame
      BY DEF TInv, TypeOK, StackOK
    <2> QED BY <2>1 DEF Frame
  <1>4. /\ \A i \in 1 .. n : stack[i].req.n <= sent
        /\ \A s \in Sessions : \A r \in Messages(s) :
              /\ r.n \in 1 .. sent
              /\ \A i \in 1 .. n : stack[i].req = r => stack[i].link = s
    BY DEF Routed
  <1> HIDE DEF n, q
  <1>5. \A i \in 1 .. n : i = n \/ (i \in 1 .. n - 1 /\ i \in 1 .. n)
    BY <1>2
  <1>6. \A i \in 1 .. n - 1 : i \in 1 .. n /\ stack'[i].req.n <= sent /\ stack'[i].req \in Request
    BY <1>2, <1>3, <1>4
  <1>7. \A i \in 1 .. n : stack'[i].req.n <= sent'
    <2>1. stack'[n].req.n = sent'
      BY <1>1, <1>2 DEF q
    <2>2. \A i \in 1 .. n - 1 : stack'[i].req.n <= sent'
      BY <1>1, <1>3, <1>6 DEF Request
    <2>3. sent' <= sent'
      BY <1>1
    <2> QED BY <1>5, <2>1, <2>2, <2>3
  <1>8. ASSUME NEW s \in Sessions, NEW r \in Messages(s)'
        PROVE  /\ r.n \in 1 .. sent'
               /\ \A i \in 1 .. n : stack'[i].req = r => stack'[i].link = s
    <2>1. r \in Messages(s) \/ (s = pending /\ r = q)
      BY <1>1, <1>2, <1>8 DEF Messages
    <2>2. CASE r \in Messages(s)
      <3>1. r.n \in 1 .. sent
        BY <1>4, <2>2
      <3>2. r.n \in 1 .. sent' /\ r.n # sent + 1
        BY <1>1, <3>1
      <3>3. \A i \in 1 .. n - 1 : stack'[i].req = r => stack'[i].link = s
        BY <1>2, <1>4, <1>6, <2>2
      <3> QED BY <1>2, <1>5, <3>2, <3>3 DEF q
    <2>3. CASE s = pending /\ r = q
      <3>1. r.n = sent + 1 /\ r.n \in 1 .. sent'
        BY <1>1, <1>2, <2>3
      <3>2. \A i \in 1 .. n - 1 : stack'[i].req # r
        <4>1. ASSUME NEW x \in Nat, x <= sent PROVE x # sent + 1
          BY <1>1, <4>1
        <4> QED BY <1>6, <3>1, <4>1 DEF Request
      <3> QED BY <1>2, <1>5, <2>3, <3>1, <3>2
    <2> QED BY <2>1, <2>2, <2>3
  <1> QED BY <1>2, <1>7, <1>8 DEF Routed

LEMMA RoutedStep == TInv /\ Routed /\ [Next]_vars => Routed'
  <1> SUFFICES ASSUME TInv, Routed, [Next]_vars PROVE Routed'
    OBVIOUS
  <1>1. CASE Send
    BY <1>1, RoutedBySend
  <1>2. CASE ~Send
    <2>1. /\ sent' = sent /\ sent \in Nat
          /\ \A s \in Sessions : Messages(s)' \subseteq Messages(s)
      BY <1>2, MessagesMove DEF TInv, TypeOK, NetOK
    <2>2. FramesKept
      BY <1>2, FramesMove
    <2>3. NoRequest.n = 0
      BY DEF NoRequest
    <2>4. \A i \in 1 .. Len(stack') : stack'[i].req.n <= sent'
      BY <2>1, <2>2, <2>3 DEF FramesKept, Routed
    <2>5. ASSUME NEW s \in Sessions, NEW r \in Messages(s)', NEW i \in 1 .. Len(stack'),
                 stack'[i].req = r
          PROVE  stack'[i].link = s
      <3>1. r \in Messages(s) /\ r.n \in 1 .. sent
        BY <2>1 DEF Routed
      <3>2. r # NoRequest
        BY <2>1, <2>3, <3>1
      <3> QED BY <2>2, <2>5, <3>1, <3>2 DEF FramesKept, Routed
    <2> QED BY <2>1, <2>4, <2>5 DEF Routed
  <1> QED BY <1>1, <1>2

LEMMA RoutedInvariance == Spec => []Routed
  <1>1. Init => Routed
    <2> SUFFICES ASSUME Init PROVE Routed
      OBVIOUS
    <2>1. Len(stack) = 0 /\ \A s \in Sessions : owed[s] = {} /\ Len(inbox[s]) = 0
      BY DEF Init
    <2> QED BY <2>1 DEF Routed, Messages
  <1> QED BY <1>1, RoutedStep, TypeInvariance, PTL DEF Spec

\* Only a response step reads.
LEMMA ReadBy == ASSUME Next, got' # got PROVE \E s \in Sessions : Receive(s)
  <1>1. ASSUME NEW s \in Sessions,
               ResponseValid(s) \/ ResponseInvalid(s) \/ ResponseNotJson(s)
        PROVE  Receive(s)
    BY <1>1 DEF ResponseValid, ResponseInvalid, ResponseNotJson
  <1>2. ASSUME NEW s \in Sessions,
               \/ ReadThrows(s) \/ Connects(s) \/ ConnectFails(s) \/ Loses(s) \/ Answers(s)
        PROVE  UNCHANGED got
    BY <1>2 DEF ReadThrows, Connects, ConnectFails, Loses, Answers, Becomes, ghosts
  <1>3. ASSUME \/ StartFlow \/ CatchFlow \/ CatchOther \/ Finish \/ Shutdown \/ Render
               \/ RequestThrows \/ Borrow \/ Send \/ ResponseFirst \/ RunFlow \/ Block \/ EndOfSteps
               \/ UnwindFrame \/ UNCHANGED vars
        PROVE  UNCHANGED got
    BY <1>3 DEF StartFlow, CatchFlow, CatchOther, Finish, Shutdown, Render, RequestThrows,
       Borrow, Send, ResponseFirst, RunFlow, Block, EndOfSteps, UnwindFrame, ghosts, vars
  <1> QED BY <1>1, <1>2, <1>3 DEF Next, Main, Environment, Ended

\* A response step never takes away a message that the request of another
\* active frame caused.
THEOREM RepliesKept == Spec => NoReplyStolen
  <1> DEFINE Own == \A i \in DOMAIN stack : stack[i].req = got'.msg => i = Len(stack)
  <1>1. ASSUME TInv, SessionsConserved, Routed, NEW s \in Sessions, Receive(s) PROVE Own
    <2>1. /\ stack # <<>> /\ Top.link = s /\ inbox[s] \in Seq(Request) /\ inbox[s] # <<>>
          /\ got'.msg = Head(inbox[s])
      BY <1>1, AtStepFacts DEF Receive, TInv, TypeOK, NetOK
    <2>2. got'.msg \in Messages(s)
      BY <2>1 DEF Messages
    <2>3. /\ DOMAIN stack = 1 .. Len(stack) /\ Len(stack) \in 1 .. Len(stack)
          /\ stack[Len(stack)].link = s /\ s # NoSession
      BY <1>1, <2>1, StackDomain, TopIsFrame, FlowAssumption
         DEF TInv, TypeOK, Top, Sessions, NoSession
    <2>4. \A i \in 1 .. Len(stack) : stack[i].req = got'.msg => stack[i].link = s
      BY <1>1, <2>2 DEF Routed
    <2>5. \A i \in 1 .. Len(stack) : stack[i].link = s => i = Len(stack)
      BY <1>1, <2>3 DEF SessionsConserved
    <2> QED BY <2>3, <2>4, <2>5
  <1> HIDE DEF Own
  <1>2. TInv /\ SessionsConserved /\ Routed /\ [Next]_vars => [got' # got => Own]_vars
    BY <1>1, ReadBy DEF vars, ghosts
  <1> QED BY <1>2, RoutedInvariance, ConservationInvariance, PTL DEF Spec, NoReplyStolen, Own

\* What is under way on the session of a frame was caused by that frame's request
\* or by an earlier one: the frames above it and the flows after it use others.
Latest ==
    \A i \in 1 .. Len(stack) : \A s \in Sessions : stack[i].link = s =>
        \A r \in Messages(s) : r.n <= stack[i].req.n

LEMMA LatestBySend ==
    ASSUME TInv, SessionsConserved, Routed, Latest, Send
    PROVE  Latest'
  <1> DEFINE n == Len(stack)
             q == stack'[n].req
  <1>1. /\ sent \in Nat /\ inbox' = inbox /\ NoSession \notin Sessions
        /\ owed \in [Sessions -> SUBSET Request]
    BY SessionCount DEF Send, TInv, TypeOK, NetOK
  <1>2. /\ n \in Nat \ {0} /\ Len(stack') = n /\ q.n = sent + 1
        /\ \A i \in 1 .. n - 1 : stack'[i].link = stack[i].link /\ stack'[i].req = stack[i].req
        /\ stack'[n].link = pending /\ pending \in Sessions
        /\ \A s \in Sessions : \A r \in owed'[s] : r \in owed[s] \/ (s = pending /\ r = q)
    <2>1. n \in Nat \ {0}
      BY SendStack DEF TInv, TypeOK, StackOK
    <2> QED BY <2>1, SendStack
  <1>3. \A s \in Sessions : \A r \in Messages(s)' :
            r \in Messages(s) \/ (s = pending /\ r = q)
    BY <1>1, <1>2 DEF Messages
  <1>4. \A i \in 1 .. n : stack[i].link # NoSession => stack[i].link # pending
    BY StackDomain DEF SessionsConserved
  <1> SUFFICES ASSUME NEW i \in 1 .. n, NEW s \in Sessions, stack'[i].link = s,
                      NEW r \in Messages(s)'
               PROVE  r.n <= stack'[i].req.n
    BY <1>2 DEF Latest
  <1> HIDE DEF n, q
  <1>5. CASE i = n
    <2>1. s = pending /\ (r \in Messages(s) \/ r = q)
      BY <1>2, <1>3, <1>5
    <2>2. CASE r = q
      BY <1>1, <1>2, <1>5, <2>2 DEF q
    <2>3. CASE r \in Messages(s)
      <3>1. r.n \in 1 .. sent
        BY <2>3 DEF Routed
      <3>2. stack'[i].req.n = sent + 1
        BY <1>2, <1>5 DEF q
      <3> QED BY <1>1, <3>1, <3>2
    <2> QED BY <2>1, <2>2, <2>3
  <1>6. CASE i \in 1 .. n - 1
    <2>1. stack'[i].link = stack[i].link /\ stack'[i].req = stack[i].req /\ s # pending
      BY <1>1, <1>2, <1>4, <1>6
    <2>2. r \in Messages(s)
      BY <1>3, <2>1
    <2> QED BY <2>1, <2>2 DEF Latest, n
  <1> QED BY <1>2, <1>5, <1>6

LEMMA LatestStep ==
    TInv /\ SessionsConserved /\ Routed /\ Latest /\ [Next]_vars => Latest'
  <1> SUFFICES ASSUME TInv, SessionsConserved, Routed, Latest, [Next]_vars, ~Send
               PROVE  Latest'
    BY LatestBySend
  <1>1. FramesKept /\ \A s \in Sessions : Messages(s)' \subseteq Messages(s)
    BY FramesMove, MessagesMove
  <1> SUFFICES ASSUME NEW i \in 1 .. Len(stack'), NEW s \in Sessions, stack'[i].link = s,
                      NEW r \in Messages(s)'
               PROVE  r.n <= stack'[i].req.n
    BY DEF Latest
  <1>2. /\ i \in 1 .. Len(stack)
        /\ stack'[i].req = stack[i].req /\ stack'[i].link = stack[i].link
    BY <1>1, SessionCount DEF FramesKept
  <1>3. r \in Messages(s)
    BY <1>1
  <1> QED BY <1>2, <1>3 DEF Latest

\* A response step never reads what a later request than its own frame's caused,
\* in any scripts: nobody else writes on a session that a frame still reads from.
THEOREM NothingFromLaterAlways == Spec => []NothingFromLater
  <1>1. Init => Latest /\ NothingFromLater
    <2> SUFFICES ASSUME Init PROVE Latest /\ NothingFromLater
      OBVIOUS
    <2>1. Len(stack) = 0 /\ got.msg.n = 0 /\ got.want.n = 0
      BY DEF Init, NoRequest
    <2> QED BY <2>1 DEF Latest, NothingFromLater
  <1>2. ASSUME TInv, Latest, NEW s \in Sessions, Receive(s) PROVE NothingFromLater'
    <2>1. /\ stack # <<>> /\ Top.link = s /\ inbox[s] \in Seq(Request) /\ inbox[s] # <<>>
          /\ got'.msg = Head(inbox[s]) /\ got'.want = Top.req
      BY <1>2, AtStepFacts DEF Receive, TInv, TypeOK, NetOK
    <2>2. got'.msg \in Messages(s)
      BY <2>1 DEF Messages
    <2>3. Len(stack) \in 1 .. Len(stack) /\ stack[Len(stack)] = Top /\ s # NoSession
      BY <1>2, <2>1, TopIsFrame, SessionCount DEF TInv, TypeOK, Top
    <2> QED BY <1>2, <2>1, <2>2, <2>3 DEF Latest, NothingFromLater
  <1>3. TInv /\ Latest /\ NothingFromLater /\ [Next]_vars => NothingFromLater'
    BY <1>2, ReadBy DEF NothingFromLater, vars, ghosts
  <1> QED
    BY <1>1, <1>3, LatestStep, RoutedInvariance, ConservationInvariance, PTL DEF Spec

-----------------------------------------------------------------------------
\* Scripts that follow each request with its response.

InScripts(B) == \A i \in 1 .. Len(stack) : stack[i].body \in B

LEMMA ScriptEntered ==
    ASSUME TInv, NEW B, InScripts(B), NEW kind \in {"flow", "subflow", "block"},
           NEW body \in Bodies, body \in B, NEW base \in Paths, NEW left \in Nat \ {0},
           Enter(kind, body, base, left)
    PROVE  InScripts(B)'
  <1> DEFINE f == NewFrame(kind, body, base, left)
  <1>1. f \in Frame /\ f.body = body
    BY NewFrameIsFrame DEF NewFrame
  <1>2. stack' = Append(stack, f)
    BY DEF Enter
  <1> HIDE DEF f
  <1>3. stack \in Seq(Frame) /\ Len(stack) \in Nat
    BY DEF TInv, TypeOK, StackOK
  <1>4. /\ Len(stack') = Len(stack) + 1
        /\ \A i \in 1 .. Len(stack) : stack'[i] = stack[i]
        /\ stack'[Len(stack) + 1] = f
    BY <1>1, <1>2, <1>3, Pushed
  <1>5. \A i \in 1 .. Len(stack') : i \in 1 .. Len(stack) \/ i = Len(stack) + 1
    BY <1>3, <1>4
  <1> QED BY <1>1, <1>4, <1>5 DEF InScripts

LEMMA ScriptAdvanced ==
    ASSUME TInv, NEW B, InScripts(B), stack # <<>>, stack' = Advanced(stack)
    PROVE  InScripts(B)'
  <1>1. stack \in Seq(Frame)
    BY DEF TInv, TypeOK, StackOK
  <1> QED BY <1>1, Moved DEF InScripts

\* The step a frame is at, and what its script says of it.
LEMMA FollowedStep ==
    ASSUME TInv, NEW B \in SUBSET Bodies, Followed(B), InScripts(B), stack # <<>>,
           Top.at <= Len(StepsOf[Top.body])
    PROVE  /\ Top.body \in B /\ StepNow \in Step
           /\ StepNow.op = "request" =>
                 /\ ~StepNow.stream
                 /\ Top.at + 1 \in 1 .. Len(StepsOf[Top.body])
                 /\ StepsOf[Top.body][Top.at + 1].op = "response"
           /\ StepNow.op = "block" => StepNow.body \in B
           /\ StepNow.op = "run_flow" => \A dir \in DOMAIN Disk :
                 MayLeadTo(StepNow.name, dir) => Disk[dir] \in B \cup {Malformed}
  <1>1. /\ Len(stack) \in 1 .. Len(stack) /\ Top \in Frame /\ Top = stack[Len(stack)]
        /\ StepNow \in Step
    BY TopIsFrame, StepIsStep DEF TInv, TypeOK, Top
  <1>2. Top.body \in B
    BY <1>1 DEF InScripts
  <1>3. /\ StepsOf[Top.body] \in Seq(Step) /\ Top.at \in 1 .. Len(StepsOf[Top.body])
        /\ DOMAIN StepsOf[Top.body] = 1 .. Len(StepsOf[Top.body])
    BY <1>1, FlowAssumption DEF Frame
  <1> QED BY <1>1, <1>2, <1>3 DEF Followed, StepNow

LEMMA InScriptsStep ==
    ASSUME TInv, NEW B \in SUBSET Bodies, Followed(B), InScripts(B), [Next]_vars
    PROVE  InScripts(B)'
  <1>1. UNCHANGED stack => InScripts(B)'
    BY DEF InScripts
  <1>2. CASE CatchFlow \/ CatchOther \/ Finish \/ Shutdown \/ Render \/ RequestThrows \/ Borrow
             \/ ResponseFirst \/ UNCHANGED vars
    BY <1>1, <1>2 DEF CatchFlow, CatchOther, Finish, Shutdown, Render, RequestThrows,
                      Borrow, ResponseFirst, vars, main
  <1>3. ASSUME NEW s \in Sessions, ResponseInvalid(s) \/ ResponseNotJson(s) \/ ReadThrows(s)
        PROVE  InScripts(B)'
    BY <1>1, <1>3 DEF ResponseInvalid, ResponseNotJson, ReadThrows
  <1>4. ASSUME NEW s \in Sessions, ResponseValid(s) PROVE InScripts(B)'
    <2>1. stack # <<>> /\ stack' = Advanced(stack)
      BY <1>4, AtStepFacts DEF ResponseValid, Receive, TInv, TypeOK
    <2> QED BY <2>1, ScriptAdvanced
  <1>5. CASE Environment
    BY <1>1, <1>5, EnvironmentTypes DEF main
  <1>6. CASE Send
    BY <1>6, SendStack DEF InScripts
  <1>7. CASE EndOfSteps
    <2>1. /\ Len(stack) \in Nat \ {0} /\ Len(stack') \in {Len(stack) - 1, Len(stack)}
          /\ Len(stack') \in Nat
      BY <1>7, EndStack
    <2>2. \A i \in 1 .. Len(stack') : /\ i \in 1 .. Len(stack)
                                      /\ i = Len(stack) \/ (i \in 1 .. Len(stack) - 1 /\ i <= Len(stack'))
      BY <2>1
    <2>3. Len(stack') = Len(stack) => stack'[Len(stack)].body = stack[Len(stack)].body
      BY <1>7, <2>1, EndStack
    <2>4. \A i \in 1 .. Len(stack) - 1 : i <= Len(stack') => stack'[i].body = stack[i].body
      BY <1>7, EndStack
    <2>5. \A i \in 1 .. Len(stack') : stack'[i].body = stack[i].body
      BY <2>1, <2>2, <2>3, <2>4
    <2> QED BY <2>2, <2>5 DEF InScripts
  <1>8. CASE UnwindFrame
    <2>1. Len(stack) \in Nat \ {0} /\ Len(stack') = Len(stack) - 1
      BY <1>8, UnwindStack
    <2>2. \A i \in 1 .. Len(stack') : i \in 1 .. Len(stack) - 1 /\ i \in 1 .. Len(stack)
      BY <2>1
    <2> QED BY <1>8, <2>2, UnwindStack DEF InScripts
  <1>9. CASE StartFlow
    <2> DEFINE base == TopLevelBase(plan[next])
               body == Disk[DirOf(base)]
    <2>1. base \in Paths /\ body \in Bodies \cup {Malformed} /\ body \in B \cup {Malformed}
      <3>1. plan \in Plans /\ next \in DOMAIN plan /\ plan[next] \in Names
        BY <1>9, FlowAssumption DEF TInv, TypeOK, ControlOK, StartFlow
      <3>2. FlowDir(plan[next]) \in DOMAIN Disk
        BY <3>1, FlowAssumption
      <3> QED BY <3>1, <3>2, TopLevelDir, FlowAssumption DEF Followed
    <2> HIDE DEF base
    <2>2. (body # Malformed /\ Enter("flow", body, base, 1)) \/ UNCHANGED stack
      BY <1>9 DEF StartFlow, base
    <2> HIDE DEF body
    <2>3. 1 \in Nat \ {0} /\ "flow" \in {"flow", "subflow", "block"}
      OBVIOUS
    <2> QED BY <1>1, <2>1, <2>2, <2>3, ScriptEntered
  <1>10. CASE RunFlow
    <2> DEFINE base == SubflowBase(Top.base, StepNow.name)
               dir == DirOf(base)
    <2>1. /\ stack # <<>> /\ Top \in Frame /\ StepNow \in Step /\ StepNow.op = "run_flow"
          /\ Top.at <= Len(StepsOf[Top.body])
      BY <1>10, AtStepFacts DEF RunFlow, AtStep, TInv, TypeOK
    <2>2. Top.base \in Paths /\ StepNow.name \in Names
      BY <2>1 DEF Frame, Step
    <2>3. base \in Paths /\ base # <<>> /\ Last(base) = StepNow.name
      BY <2>2, SubflowBaseIsPath
    <2>4. MayLeadTo(StepNow.name, dir)
      BY <2>3 DEF MayLeadTo, DirOf
    <2> HIDE DEF base
    <2>5. (Loadable(dir) /\ Enter("subflow", Disk[dir], base, 1)) \/ UNCHANGED stack
      BY <1>10 DEF RunFlow, base
    <2> HIDE DEF dir
    <2>6. Loadable(dir) => Disk[dir] \in Bodies /\ Disk[dir] \in B
      BY <2>1, <2>4, FollowedStep, FlowAssumption DEF Loadable
    <2>7. 1 \in Nat \ {0} /\ "subflow" \in {"flow", "subflow", "block"}
      OBVIOUS
    <2> QED BY <1>1, <2>3, <2>5, <2>6, <2>7, ScriptEntered
  <1>11. CASE Block
    <2>1. /\ stack # <<>> /\ Top \in Frame /\ StepNow \in Step /\ StepNow.op = "block"
          /\ Top.at <= Len(StepsOf[Top.body])
      BY <1>11, AtStepFacts DEF Block, AtStep, TInv, TypeOK
    <2>2. PICK n \in Repeats(StepNow) :
              stack' = Advanced(stack) \/ (n > 0 /\ Enter("block", StepNow.body, Top.base, n))
      BY <1>11 DEF Block
    <2>3. /\ StepNow.body \in Bodies /\ Top.base \in Paths /\ n \in Nat
          /\ "block" \in {"flow", "subflow", "block"}
      BY <2>1, <2>2, FlowAssumption DEF Step, Frame, Repeats
    <2>4. n > 0 => n \in Nat \ {0}
      BY <2>3
    <2>5. StepNow.body \in B
      BY <2>1, FollowedStep
    <2> QED BY <2>1, <2>2, <2>3, <2>4, <2>5, ScriptAdvanced, ScriptEntered
  <1> QED BY <1>2, <1>3, <1>4, <1>5, <1>6, <1>7, <1>8, <1>9, <1>10, <1>11
          DEF Next, Main, Ended

-----------------------------------------------------------------------------
\* At most one message is under way: the reply to the latest request, which the
\* top frame is about to read.

\* Nothing is read any more.
OverWith  == pc \in {"shutdown", "exit", "aborted"} \/ (pc = "unwind" /\ exc.kind = "other")
Silent(s) == owed[s] = {} /\ inbox[s] = <<>>
Awaited(s) ==
    /\ AtStep("response") /\ Top.link = s /\ ~Top.req.stream
    /\ \/ owed[s] = {Top.req} /\ inbox[s] = <<>>
       \/ owed[s] = {} /\ inbox[s] = <<Top.req>>
OneAtATime == OverWith \/ \A s \in Sessions : Silent(s) \/ Awaited(s)

LEMMA OverAndOver == ASSUME TInv, OverWith, Main PROVE OverWith'
  <1>1. CASE CatchOther \/ Shutdown \/ UnwindFrame
    BY <1>1 DEF CatchOther, GiveUp, Shutdown, UnwindFrame, OverWith
  <1>2. ASSUME \/ StartFlow \/ CatchFlow \/ Finish \/ Render \/ RequestThrows \/ Borrow \/ Send
               \/ ResponseFirst \/ RunFlow \/ Block \/ EndOfSteps
        PROVE  FALSE
    BY <1>2 DEF StartFlow, CatchFlow, Finish, Render, RequestThrows, Borrow, Send, ResponseFirst,
                RunFlow, Block, EndOfSteps, AtStep, AtEnd, OverWith
  <1>3. ASSUME NEW s \in Sessions,
               ResponseValid(s) \/ ResponseInvalid(s) \/ ResponseNotJson(s) \/ ReadThrows(s)
        PROVE  FALSE
    BY <1>3 DEF ResponseValid, ResponseInvalid, ResponseNotJson, ReadThrows, Receive, AtStep, OverWith
  <1> QED BY <1>1, <1>2, <1>3 DEF Main

\* A response step takes the only message there is.
LEMMA ReplyRead ==
    ASSUME TInv, OneAtATime, NEW s \in Sessions, Receive(s)
    PROVE  OneAtATime' /\ OwnReply'
  <1>1. /\ AtStep("response") /\ Top.link = s /\ inbox[s] # <<>> /\ owed' = owed
        /\ inbox' = [inbox EXCEPT ![s] = Tail(@)]
        /\ got' = [want |-> Top.req, msg |-> Head(inbox[s])]
    BY DEF Receive, Consumed
  <1>2. ~OverWith
    BY <1>1 DEF OverWith, AtStep
  <1>3. owed[s] = {} /\ inbox[s] = <<Top.req>>
    BY <1>1, <1>2 DEF OneAtATime, Silent, Awaited
  <1>4. \A u \in Sessions : u # s => Silent(u)
    BY <1>1, <1>2 DEF OneAtATime, Awaited
  <1>5. inbox \in [Sessions -> Seq(Request)]
    BY DEF TInv, TypeOK, NetOK
  <1>6. Tail(<<Top.req>>) = <<>> /\ Head(<<Top.req>>) = Top.req
    OBVIOUS
  <1>7. \A u \in Sessions : Silent(u)'
    BY <1>1, <1>3, <1>4, <1>5, <1>6 DEF Silent
  <1>8. OwnReply'
    BY <1>1, <1>3, <1>6 DEF OwnReply
  <1> QED BY <1>7, <1>8 DEF OneAtATime

\* The request is the only one the server owes a reply to, and its frame goes on
\* to the response step.
LEMMA RequestSent ==
    ASSUME TInv, NEW B \in SUBSET Bodies, Followed(B), InScripts(B), OneAtATime, Send
    PROVE  OneAtATime'
  <1> DEFINE n == Len(stack)
             r == [n |-> sent + 1, flow |-> next - 1, stream |-> StepNow.stream]
  <1>1. /\ pc = "establish" /\ pc' = "run" /\ inbox' = inbox
        /\ owed' = owed \/ owed' = [owed EXCEPT ![pending] = @ \cup {r}]
        /\ stack' = Advanced(WithTop([Top EXCEPT !.link = pending, !.req = r]))
    BY DEF Send
  <1>2. \A s \in Sessions : Silent(s)
    BY <1>1 DEF OneAtATime, OverWith, Awaited, AtStep
  <1>3. /\ stack # <<>> /\ Top \in Frame /\ n \in Nat \ {0} /\ Len(stack') = n
        /\ n \in 1 .. n /\ stack[n] = Top /\ pending \in Sessions
        /\ stack'[n].body = Top.body /\ stack'[n].at = Top.at + 1
        /\ stack'[n].link = pending /\ stack'[n].req.stream = StepNow.stream
        /\ Top' = stack'[n]
    <2>1. n \in Nat \ {0} /\ n \in 1 .. n
      BY SendStack DEF TInv, TypeOK, StackOK
    <2>2. Top' = stack'[n] /\ Top = stack[n]
      BY SendStack DEF Top
    <2> QED BY <2>1, <2>2, SendStack
  <1>4. /\ ~StepNow.stream /\ Top.at + 1 \in 1 .. Len(StepsOf[Top.body])
        /\ StepsOf[Top.body][Top.at + 1].op = "response"
    <2>1. Top.at <= Len(StepsOf[Top.body]) /\ StepNow.op = "request"
      BY <1>1 DEF TInv, Shape
    <2> QED BY <1>3, <2>1, FollowedStep
  <1>5. \A s \in Sessions : \A q \in owed'[s] : s = pending /\ q = stack'[n].req
    BY <1>2, SendStack DEF Silent
  <1> HIDE DEF n, r
  <1>6. AtStep("response")' /\ Top'.link = pending /\ ~Top'.req.stream
    <2>1. StepNow' = StepsOf[Top.body][Top.at + 1]
      BY <1>3 DEF StepNow
    <2>2. Top'.at <= Len(StepsOf[Top'.body])
      BY <1>3, <1>4
    <2> QED BY <1>1, <1>3, <1>4, <2>1, <2>2 DEF AtStep
  <1>7. ASSUME NEW s \in Sessions PROVE Silent(s)' \/ Awaited(s)'
    <2>1. inbox'[s] = <<>>
      BY <1>1, <1>2 DEF Silent
    <2>2. CASE owed'[s] = {}
      BY <2>1, <2>2 DEF Silent
    <2>3. CASE owed'[s] # {}
      <3>1. s = pending /\ owed'[s] = {Top'.req}
        BY <1>3, <1>5, <2>3
      <3> QED BY <1>6, <2>1, <3>1 DEF Awaited
    <2> QED BY <2>2, <2>3
  <1> QED BY <1>7 DEF OneAtATime

LEMMA ReplyArrives ==
    ASSUME TInv, OneAtATime, NEW s \in Sessions, Answers(s)
    PROVE  OneAtATime'
  <1>1. PICK r \in owed[s] :
            /\ inbox' = [inbox EXCEPT ![s] = Append(@, r)]
            /\ owed' = IF r.stream THEN owed ELSE [owed EXCEPT ![s] = @ \ {r}]
    BY DEF Answers
  <1>2. UNCHANGED <<pc, stack, exc>>
    BY DEF Answers, main
  <1>3. CASE OverWith
    BY <1>2, <1>3 DEF OverWith, OneAtATime
  <1>4. CASE ~OverWith
    <2>1. Awaited(s) /\ owed[s] = {Top.req} /\ inbox[s] = <<>> /\ r = Top.req /\ ~r.stream
      BY <1>1, <1>4 DEF OneAtATime, Silent, Awaited
    <2>2. /\ inbox \in [Sessions -> Seq(Request)] /\ owed \in [Sessions -> SUBSET Request]
      BY DEF TInv, TypeOK, NetOK
    <2>3. Append(<<>>, r) = <<r>>
      OBVIOUS
    <2>4. owed'[s] = {} /\ inbox'[s] = <<r>>
      BY <1>1, <2>1, <2>2, <2>3
    <2>5. \A u \in Sessions : u # s => owed'[u] = owed[u] /\ inbox'[u] = inbox[u]
      BY <1>1, <2>1, <2>2
    <2>6. Top' = Top /\ (AtStep("response")' <=> AtStep("response"))
      BY <1>2 DEF Top, AtStep, StepNow
    <2>7. Awaited(s)'
      BY <2>1, <2>4, <2>6 DEF Awaited
    <2>8. \A u \in Sessions : u # s => Silent(u)'
      BY <1>4, <2>1, <2>5 DEF OneAtATime, Awaited, Silent
    <2> QED BY <2>7, <2>8 DEF OneAtATime
  <1> QED BY <1>3, <1>4

LEMMA OwnReplyStep ==
    ASSUME TInv, NEW B \in SUBSET Bodies, Followed(B), InScripts(B), OneAtATime, OwnReply, [Next]_vars
    PROVE  OneAtATime' /\ OwnReply'
  <1>1. UNCHANGED got => OwnReply'
    BY DEF OwnReply
  \* With nothing under way, a step that sends nothing leaves it so.
  <1>2. ASSUME ~AtStep("response"), ~OverWith, UNCHANGED <<owed, inbox>>
        PROVE  OneAtATime'
    BY <1>2 DEF OneAtATime, Awaited, Silent
  <1>3. ASSUME NEW cause, Throw("other", cause) PROVE OneAtATime'
    BY <1>3 DEF Throw, OneAtATime, OverWith
  <1>4. ASSUME NEW s \in Sessions,
               ResponseValid(s) \/ ResponseInvalid(s) \/ ResponseNotJson(s)
        PROVE  OneAtATime' /\ OwnReply'
    BY <1>4, ReplyRead DEF ResponseValid, ResponseInvalid, ResponseNotJson
  <1>5. ASSUME NEW s \in Sessions, ReadThrows(s) PROVE OneAtATime' /\ OwnReply'
    BY <1>1, <1>3, <1>5 DEF ReadThrows
  <1>6. CASE ResponseFirst
    BY <1>1, <1>3, <1>6 DEF ResponseFirst
  <1>7. CASE Send
    BY <1>1, <1>7, RequestSent DEF Send, ghosts
  <1>8. CASE \/ StartFlow \/ CatchFlow \/ CatchOther \/ Finish \/ Shutdown \/ Render
             \/ RequestThrows \/ Borrow \/ RunFlow \/ Block \/ EndOfSteps \/ UnwindFrame
    <2>1. UNCHANGED <<owed, inbox, got>>
      BY <1>8 DEF StartFlow, CatchFlow, CatchOther, Finish, Shutdown, Render, RequestThrows,
         Borrow, RunFlow, Block, EndOfSteps, UnwindFrame, ghosts, net
    <2>2. CASE OverWith
      BY <1>1, <1>8, <2>1, <2>2, OverAndOver DEF Main, OneAtATime
    <2>3. CASE ~OverWith
      <3>1. ~AtStep("response")
        <4>1. CASE EndOfSteps
          <5>1. Top.at \in Nat /\ Len(StepsOf[Top.body]) \in Nat
            BY <4>1, EndStack, FlowAssumption DEF Frame
          <5> QED BY <4>1, <5>1 DEF EndOfSteps, AtEnd, AtStep
        <4>2. CASE ~EndOfSteps
          BY <1>8, <4>2 DEF StartFlow, CatchFlow, CatchOther, Finish, Shutdown, Render,
             RequestThrows, Borrow, RunFlow, Block, UnwindFrame, AtStep
        <4> QED BY <4>1, <4>2
      <3> QED BY <1>1, <1>2, <2>1, <2>3, <3>1
    <2> QED BY <2>2, <2>3
  <1>9. ASSUME UNCHANGED <<pc, stack, exc, owed, inbox, got>> PROVE OneAtATime' /\ OwnReply'
    BY <1>1, <1>9 DEF OneAtATime, OverWith, Silent, Awaited, AtStep, StepNow, Top
  <1>10. ASSUME NEW s \in Sessions, Connects(s) \/ ConnectFails(s) \/ Loses(s)
         PROVE  OneAtATime' /\ OwnReply'
    BY <1>9, <1>10 DEF Connects, ConnectFails, Loses, Becomes, main, ghosts
  <1>11. ASSUME NEW s \in Sessions, Answers(s) PROVE OneAtATime' /\ OwnReply'
    BY <1>1, <1>11, ReplyArrives DEF Answers, ghosts
  <1>12. CASE UNCHANGED vars
    BY <1>9, <1>12 DEF vars, main, net, ghosts
  <1> QED BY <1>4, <1>5, <1>6, <1>7, <1>8, <1>10, <1>11, <1>12
          DEF Next, Main, Environment, Ended

\* In scripts that follow each request with its response, each response step reads
\* the reply to its own frame's request, whatever happened in the flows before it:
\* the next flow borrows a session with nothing left to read.
THEOREM OwnReplyAlways ==
    ASSUME NEW B \in SUBSET Bodies, Followed(B)
    PROVE  Spec => []OwnReply
  <1> DEFINE RInv == InScripts(B) /\ OneAtATime /\ OwnReply
  <1>1. Init => RInv
    <2> SUFFICES ASSUME Init PROVE RInv
      OBVIOUS
    <2>1. Len(stack) = 0 /\ \A s \in Sessions : Silent(s)
      BY DEF Init, Silent
    <2> QED BY <2>1 DEF Init, InScripts, OneAtATime, OwnReply
  <1>2. TInv /\ RInv /\ [Next]_vars => RInv'
    BY InScriptsStep, OwnReplyStep
  <1>3. RInv => OwnReply
    OBVIOUS
  <1> HIDE DEF RInv
  <1> QED BY <1>1, <1>2, <1>3, TypeInvariance, PTL DEF Spec
-----------------------------------------------------------------------------
\* Scripts of pairs: a response step comes after a request, and only there.

\* The frames below the top one are at the step that the frame above them is for.
CallsBelow ==
    \A i \in 1 .. Len(stack) - 1 :
        /\ stack[i].at <= Len(StepsOf[stack[i].body])
        /\ StepsOf[stack[i].body][stack[i].at].op \in {"run_flow", "block"}

Expecting ==
    AtStep("response") => /\ Top.link \in Sessions
                          /\ conn[Top.link] = "lost" \/ Awaited(Top.link)

\* What the end of a frame leaves: the frames below it, the lowest of them at its
\* next step, or the frame itself, for another iteration, at its first.
LEMMA EndTop ==
    ASSUME TInv, EndOfSteps, stack' # <<>>
    PROVE  /\ \A i \in 1 .. Len(stack') - 1 : stack'[i] = stack[i] /\ i \in 1 .. Len(stack) - 1
           /\ \/ Top'.at = 1
              \/ /\ Len(stack') \in 1 .. Len(stack) - 1
                 /\ Top'.body = stack[Len(stack')].body
                 /\ Top'.at = stack[Len(stack')].at + 1
  <1>1. /\ stack # <<>> /\ stack \in Seq(Frame) /\ Top \in Frame /\ Len(stack) \in Nat \ {0}
    BY EndStack DEF TInv, TypeOK, StackOK
  <1>2. /\ Front(stack) \in Seq(Frame) /\ Len(Front(stack)) = Len(stack) - 1
        /\ \A i \in 1 .. Len(stack) - 1 : Front(stack)[i] = stack[i]
    BY <1>1, Popped
  <1>3. CASE stack' = Front(stack) /\ Top.kind = "flow"
    <2>1. pc' = "schedule"
      BY <1>3 DEF EndOfSteps
    <2>2. Len(stack) = 1
      BY <2>1, EndStack
    <2> QED BY <1>2, <1>3, <2>2
  <1>4. CASE stack' = Advanced(Front(stack)) /\ Top.kind # "flow"
    <2>1. Front(stack) # <<>>
      <3>1. Len(stack) \in 1 .. Len(stack) /\ Top = stack[Len(stack)]
        BY <1>1 DEF Top
      <3>2. Len(stack) # 1
        BY <1>4, <3>1 DEF TInv, Shape
      <3>3. Len(<<>>) = 0
        OBVIOUS
      <3> QED BY <1>1, <1>2, <3>2, <3>3
    <2>2. /\ Len(stack') = Len(stack) - 1
          /\ \A i \in 1 .. Len(stack) - 1 : stack'[i].body = Front(stack)[i].body
          /\ \A i \in 1 .. Len(stack) - 1 - 1 : stack'[i] = Front(stack)[i]
          /\ stack'[Len(stack) - 1].at = Front(stack)[Len(stack) - 1].at + 1
      <3> DEFINE below == Front(stack)
      <3>1. below \in Seq(Frame) /\ below # <<>> /\ Len(below) = Len(stack) - 1
        BY <1>2, <2>1
      <3>2. stack' = Advanced(below)
        BY <1>4
      <3> HIDE DEF below
      <3>3. /\ Len(Advanced(below)) = Len(below)
            /\ \A i \in 1 .. Len(below) : Advanced(below)[i].body = below[i].body
            /\ \A i \in 1 .. Len(below) - 1 : Advanced(below)[i] = below[i]
            /\ Advanced(below)[Len(below)].at = below[Len(below)].at + 1
        BY <3>1, Moved
      <3>4. /\ Len(stack') = Len(stack) - 1
            /\ \A i \in 1 .. Len(stack) - 1 : stack'[i].body = below[i].body
            /\ \A i \in 1 .. Len(stack) - 1 - 1 : stack'[i] = below[i]
            /\ stack'[Len(stack) - 1].at = below[Len(stack) - 1].at + 1
        BY ONLY <3>1, <3>2, <3>3, Zenon
      <3> QED BY <3>4 DEF below
    <2>3. Len(stack) - 1 \in 1 .. Len(stack) - 1
      BY <1>1, <1>2, <2>1
    <2> QED BY <1>1, <1>2, <2>2, <2>3 DEF Top
  <1>5. CASE stack' = WithTop(NewFrame("block", Top.body, Top.base, Top.left - 1)) /\ Top.left > 1
             /\ Top.kind = "block"
    <2> DEFINE f == NewFrame("block", Top.body, Top.base, Top.left - 1)
    <2>1. f \in Frame /\ f.at = 1
      <3>1. Top.body \in Bodies /\ Top.base \in Paths /\ Top.left - 1 \in Nat \ {0}
        BY <1>1, <1>5 DEF Frame
      <3> QED BY <3>1, NewFrameIsFrame DEF NewFrame
    <2>2. stack' = [stack EXCEPT ![Len(stack)] = f]
      BY <1>5 DEF WithTop
    <2> HIDE DEF f
    <2>3. /\ Len(stack') = Len(stack)
          /\ \A i \in 1 .. Len(stack) - 1 : stack'[i] = stack[i]
          /\ stack'[Len(stack)] = f
      BY <1>1, <2>1, <2>2, Replaced
    <2> QED BY <2>1, <2>3 DEF Top
  <1> QED BY <1>3, <1>4, <1>5 DEF EndOfSteps

\* How a step of the main thread can leave the call stack.
LEMMA BelowAfterEnter ==
    ASSUME TInv, CallsBelow, NEW kind \in {"flow", "subflow", "block"}, NEW body \in Bodies,
           NEW base \in Paths, NEW left \in Nat \ {0}, Enter(kind, body, base, left),
           \/ stack = <<>>
           \/ Top.at <= Len(StepsOf[Top.body]) /\ StepNow.op \in {"run_flow", "block"}
    PROVE  CallsBelow' /\ Top'.at = 1 /\ Top'.body = body /\ stack' # <<>>
  <1> DEFINE f == NewFrame(kind, body, base, left)
  <1>1. f \in Frame /\ f.body = body /\ f.at = 1
    BY NewFrameIsFrame DEF NewFrame
  <1>2. stack' = Append(stack, f)
    BY DEF Enter
  <1> HIDE DEF f
  <1>3. stack \in Seq(Frame) /\ Len(stack) \in Nat
    BY DEF TInv, TypeOK, StackOK
  <1>4. /\ Len(stack') = Len(stack) + 1 /\ stack' # <<>>
        /\ \A i \in 1 .. Len(stack) : stack'[i] = stack[i]
        /\ stack'[Len(stack) + 1] = f
    BY <1>1, <1>2, <1>3, Pushed
  <1>5. Top' = f
    BY <1>4 DEF Top
  <1>6. \A i \in 1 .. Len(stack') - 1 : /\ stack'[i] = stack[i] /\ stack # <<>>
                                        /\ i \in 1 .. Len(stack) - 1 \/ i = Len(stack)
    BY <1>3, <1>4
  <1> QED BY <1>1, <1>4, <1>5, <1>6 DEF CallsBelow, Top, StepNow

LEMMA BelowAfterAdvance ==
    ASSUME TInv, CallsBelow, stack # <<>>, stack' = Advanced(stack)
    PROVE  /\ CallsBelow' /\ stack' # <<>> /\ Top'.body = Top.body /\ Top'.at = Top.at + 1
  <1>1. stack \in Seq(Frame) /\ Len(stack) \in 1 .. Len(stack)
    BY DEF TInv, TypeOK, StackOK
  <1>2. /\ Len(stack') = Len(stack) /\ stack' # <<>>
        /\ \A i \in 1 .. Len(stack) - 1 : stack'[i] = stack[i]
        /\ stack'[Len(stack)].at = stack[Len(stack)].at + 1
        /\ stack'[Len(stack)].body = stack[Len(stack)].body
    BY <1>1, Moved
  <1> QED BY <1>2 DEF CallsBelow, Top

\* A response step is neither the first of its script nor after another step than
\* a request.
LEMMA BeforeResponse ==
    ASSUME NEW B \in SUBSET Bodies, Paired(B), NEW b \in B, NEW k \in Nat \ {0},
           k <= Len(StepsOf[b]), StepsOf[b][k].op = "response"
    PROVE  k > 1 /\ StepsOf[b][k - 1].op = "request"
  <1>1. StepsOf[b] \in Seq(Step)
    BY FlowAssumption
  <1>2. k \in DOMAIN StepsOf[b]
    BY <1>1
  <1> QED BY <1>2 DEF Paired

\* The top frame is not at a response step when it begins, nor after a step that
\* is no request.
LEMMA NotReading ==
    ASSUME TInv, TInv', NEW B \in SUBSET Bodies, Paired(B), InScripts(B)', stack' # <<>>,
           \/ Top'.at = 1
           \/ StepsOf[Top'.body][Top'.at - 1].op # "request"
    PROVE  ~AtStep("response")'
  <1> SUFFICES ASSUME AtStep("response")' PROVE FALSE
    OBVIOUS
  <1>1. stack' \in Seq(Frame) /\ Len(stack') \in 1 .. Len(stack') /\ Top' = stack'[Len(stack')]
    BY DEF TInv, TypeOK, StackOK, Top
  <1>2. Top'.body \in B /\ Top'.at \in Nat \ {0}
    <2>1. Top' \in Frame
      BY <1>1
    <2>2. Top'.body \in B
      BY <1>1 DEF InScripts
    <2> QED BY <2>1, <2>2 DEF Frame
  <1>3. /\ Top'.at <= Len(StepsOf[Top'.body])
        /\ StepsOf[Top'.body][Top'.at].op = "response"
    BY DEF AtStep, StepNow
  <1>4. Top'.at > 1 /\ StepsOf[Top'.body][Top'.at - 1].op = "request"
    BY <1>2, <1>3, BeforeResponse
  <1> QED BY <1>2, <1>4

LEMMA ReadingSteps ==
    ASSUME TInv, TInv', NEW B \in SUBSET Bodies, Paired(B), InScripts(B), InScripts(B)',
           CallsBelow,
           StartFlow \/ RunFlow \/ Block \/ EndOfSteps \/ \E s \in Sessions : ResponseValid(s)
    PROVE  CallsBelow' /\ (AtStep("response")' => FALSE)
  <1> DEFINE Goal == CallsBelow' /\ (AtStep("response")' => FALSE)
  <1> SUFFICES Goal
    OBVIOUS
  <1>1. ASSUME UNCHANGED stack, pc' # "run" PROVE Goal
    BY <1>1 DEF CallsBelow, AtStep
  <1>2. ASSUME NEW kind \in {"flow", "subflow", "block"}, NEW body \in Bodies,
               NEW base \in Paths, NEW left \in Nat \ {0}, Enter(kind, body, base, left),
               \/ stack = <<>>
               \/ Top.at <= Len(StepsOf[Top.body]) /\ StepNow.op \in {"run_flow", "block"}
        PROVE  Goal
    BY <1>2, BelowAfterEnter, NotReading
  <1>3. ASSUME NEW op, AtStep(op), op # "request", stack' = Advanced(stack)
        PROVE  Goal
    <2>1. stack # <<>> /\ Top \in Frame /\ StepNow.op = op
      BY <1>3, AtStepFacts DEF TInv, TypeOK
    <2>2. CallsBelow' /\ stack' # <<>> /\ Top'.body = Top.body /\ Top'.at = Top.at + 1
      BY <1>3, <2>1, BelowAfterAdvance
    <2>3. StepsOf[Top'.body][Top'.at - 1].op # "request"
      <3>1. Top'.at - 1 = Top.at
        BY <2>1, <2>2 DEF Frame
      <3>2. StepsOf[Top.body][Top.at].op = op
        BY <2>1 DEF StepNow
      <3> QED BY <1>3, <2>2, <3>1, <3>2
    <2> QED BY <2>2, <2>3, NotReading
  <1> HIDE DEF Goal
  <1>4. CASE StartFlow
    <2> DEFINE base == TopLevelBase(plan[next])
               body == Disk[DirOf(base)]
    <2>1. base \in Paths /\ body \in Bodies \cup {Malformed} /\ stack = <<>>
      <3>1. plan[next] \in Names /\ FlowDir(plan[next]) \in DOMAIN Disk
        BY <1>4, FlowAssumption DEF TInv, TypeOK, ControlOK, StartFlow
      <3>2. stack = <<>>
        BY <1>4 DEF StartFlow, TInv, Shape
      <3> QED BY <3>1, <3>2, TopLevelDir, FlowAssumption
    <2> HIDE DEF base
    <2>2. \/ body # Malformed /\ Enter("flow", body, base, 1)
          \/ UNCHANGED stack /\ pc' # "run"
      BY <1>4 DEF StartFlow, base, Throw
    <2> HIDE DEF body
    <2>3. 1 \in Nat \ {0} /\ "flow" \in {"flow", "subflow", "block"}
      OBVIOUS
    <2> QED BY <1>1, <1>2, <2>1, <2>2, <2>3
  <1>5. CASE RunFlow
    <2> DEFINE base == SubflowBase(Top.base, StepNow.name)
               dir == DirOf(base)
    <2>1. /\ stack # <<>> /\ Top \in Frame /\ StepNow \in Step /\ StepNow.op = "run_flow"
          /\ Top.at <= Len(StepsOf[Top.body])
      BY <1>5, AtStepFacts DEF RunFlow, AtStep, TInv, TypeOK
    <2>2. base \in Paths
      <3>1. Top.base \in Paths /\ StepNow.name \in Names
        BY <2>1 DEF Frame, Step
      <3> QED BY <3>1, SubflowBaseIsPath
    <2> HIDE DEF base
    <2>3. \/ Loadable(dir) /\ Enter("subflow", Disk[dir], base, 1)
          \/ UNCHANGED stack /\ pc' # "run"
      BY <1>5 DEF RunFlow, base, Throw
    <2>4. Loadable(dir) => Disk[dir] \in Bodies
      BY FlowAssumption DEF Loadable
    <2> HIDE DEF dir
    <2>5. 1 \in Nat \ {0} /\ "subflow" \in {"flow", "subflow", "block"}
      OBVIOUS
    <2> QED BY <1>1, <1>2, <2>1, <2>2, <2>3, <2>4, <2>5
  <1>6. CASE Block
    <2>1. /\ stack # <<>> /\ Top \in Frame /\ StepNow \in Step /\ StepNow.op = "block"
          /\ Top.at <= Len(StepsOf[Top.body]) /\ AtStep("block")
      BY <1>6, AtStepFacts DEF Block, AtStep, TInv, TypeOK
    <2>2. PICK n \in Repeats(StepNow) :
              stack' = Advanced(stack) \/ (n > 0 /\ Enter("block", StepNow.body, Top.base, n))
      BY <1>6 DEF Block
    <2>3. /\ StepNow.body \in Bodies /\ Top.base \in Paths /\ n \in Nat
          /\ "block" \in {"flow", "subflow", "block"}
      BY <2>1, <2>2, FlowAssumption DEF Step, Frame, Repeats
    <2>4. n > 0 => n \in Nat \ {0}
      BY <2>3
    <2>5. CASE stack' = Advanced(stack)
      BY <1>3, <2>1, <2>5
    <2>6. CASE n > 0 /\ Enter("block", StepNow.body, Top.base, n)
      BY <1>2, <2>1, <2>3, <2>4, <2>6
    <2> QED BY <2>2, <2>5, <2>6
  <1>7. CASE EndOfSteps
    <2>1. CASE stack' = <<>>
      <3>1. pc' = "schedule" \/ stack' # <<>>
        BY <1>7, EndStack
      <3>2. Len(stack') = 0 /\ 1 .. 0 - 1 = {}
        BY <2>1
      <3> QED BY <2>1, <3>1, <3>2 DEF Goal, CallsBelow, AtStep
    <2>2. CASE stack' # <<>>
      <3>1. CallsBelow'
        BY <1>7, <2>2, EndTop DEF CallsBelow
      <3>2. CASE Top'.at = 1
        BY <2>2, <3>1, <3>2, NotReading DEF Goal
      <3>3. CASE /\ Len(stack') \in 1 .. Len(stack) - 1
                 /\ Top'.body = stack[Len(stack')].body
                 /\ Top'.at = stack[Len(stack')].at + 1
        <4> DEFINE i == Len(stack')
        <4>1. i \in 1 .. Len(stack) - 1 /\ stack[i].at \in Nat
          <5>1. i \in 1 .. Len(stack)
            BY <3>3, EndStack, <1>7
          <5>2. stack[i] \in Frame
            BY <5>1 DEF TInv, TypeOK, StackOK
          <5>3. stack[i].at \in Nat
            BY <5>2 DEF Frame
          <5> QED BY <3>3, <5>3
        <4>2. StepsOf[stack[i].body][stack[i].at].op # "request"
          BY <4>1 DEF CallsBelow
        <4>3. StepsOf[Top'.body][Top'.at - 1].op # "request"
          <5>1. Top'.at - 1 = stack[i].at /\ Top'.body = stack[i].body
            <6>1. Top'.at = stack[i].at + 1 /\ Top'.body = stack[i].body
              BY <3>3
            <6> HIDE DEF i
            <6> QED BY <4>1, <6>1
          <5> QED BY <4>2, <5>1
        <4> QED BY <2>2, <3>1, <4>3, NotReading DEF Goal
      <3> QED BY <1>7, <2>2, <3>2, <3>3, EndTop
    <2> QED BY <2>1, <2>2
  <1>8. ASSUME NEW s \in Sessions, ResponseValid(s) PROVE Goal
    BY <1>3, <1>8 DEF ResponseValid, Receive
  <1> QED BY <1>4, <1>5, <1>6, <1>7, <1>8

LEMMA ReadingSend ==
    ASSUME TInv, NEW B \in SUBSET Bodies, Paired(B), InScripts(B), CallsBelow, OneAtATime, Send
    PROVE  CallsBelow' /\ Expecting'
  <1> DEFINE n == Len(stack)
  <1>1. /\ n \in Nat \ {0} /\ stack' # <<>> /\ Len(stack') = n /\ pending \in Sessions
        /\ \A i \in 1 .. n - 1 : stack'[i] = stack[i]
        /\ stack'[n].link = pending
    <2>1. n \in Nat \ {0}
      BY SendStack DEF TInv, TypeOK, StackOK
    <2> QED BY <2>1, SendStack
  <1>2. CallsBelow'
    BY <1>1 DEF CallsBelow
  <1>3. Top'.link = pending
    BY <1>1 DEF Top
  <1>4. conn' = conn /\ (conn[pending] = "lost" \/ conn[pending] = "open")
    BY DEF Send
  <1>5. CASE conn[pending] = "lost"
    BY <1>1, <1>2, <1>3, <1>4, <1>5 DEF Expecting
  <1>6. CASE conn[pending] = "open"
    <2>1. PICK s \in Sessions : s = pending
      BY <1>1
    <2>2. owed'[s] # {}
      <3>1. PICK r : owed' = [owed EXCEPT ![pending] = @ \cup {r}]
        BY <1>6 DEF Send
      <3>2. owed \in [Sessions -> SUBSET Request]
        BY DEF TInv, TypeOK, NetOK
      <3> QED BY <2>1, <3>1, <3>2
    <2>3. OneAtATime'
      BY RequestSent DEF Paired
    <2>4. pc' = "run"
      BY DEF Send
    <2>5. Silent(s)' \/ Awaited(s)'
      BY <2>3, <2>4 DEF OneAtATime, OverWith
    <2>6. Awaited(s)'
      BY <2>2, <2>5 DEF Silent
    <2>7. Awaited(Top.link)'
      BY <1>3, <2>1, <2>6 DEF Awaited
    <2> QED BY <1>1, <1>2, <1>3, <2>7 DEF Expecting
  <1> QED BY <1>4, <1>5, <1>6

LEMMA ReadingEnvironment ==
    ASSUME TInv, OneAtATime, CallsBelow, Expecting, Environment
    PROVE  CallsBelow' /\ Expecting'
  <1>1. UNCHANGED <<pc, stack>>
    BY EnvironmentTypes DEF main
  <1>2. CallsBelow' /\ Top' = Top /\ (AtStep("response")' <=> AtStep("response"))
    BY <1>1 DEF CallsBelow, Top, AtStep, StepNow
  <1> SUFFICES ASSUME AtStep("response")
               PROVE  conn'[Top.link] = "lost" \/ Awaited(Top.link)'
    BY <1>2 DEF Expecting
  <1>3. Top.link \in Sessions /\ (conn[Top.link] = "lost" \/ Awaited(Top.link))
    BY DEF Expecting
  <1>4. ASSUME NEW s \in Sessions, Connects(s) \/ ConnectFails(s) \/ Loses(s)
        PROVE  conn'[Top.link] = "lost" \/ Awaited(Top.link)'
    <2>1. UNCHANGED <<owed, inbox>> /\ (conn[Top.link] = "lost" => conn'[Top.link] = "lost")
      <3>1. conn \in [Sessions -> {"connecting", "open", "failed", "lost"}]
        BY DEF TInv, TypeOK, NetOK
      <3> QED BY <1>3, <1>4, <3>1 DEF Connects, ConnectFails, Loses, Becomes
    <2>2. Awaited(Top.link) => Awaited(Top.link)'
      BY <1>2, <2>1 DEF Awaited
    <2> QED BY <1>3, <2>1, <2>2
  <1>5. ASSUME NEW s \in Sessions, Answers(s)
        PROVE  conn'[Top.link] = "lost" \/ Awaited(Top.link)'
    <2>1. conn' = conn
      BY <1>5 DEF Answers
    <2>2. CASE conn[Top.link] = "lost"
      BY <2>1, <2>2
    <2>3. CASE conn[Top.link] # "lost"
      <3>1. Awaited(Top.link)
        BY <1>3, <2>3
      <3>2. PICK r \in owed[s] :
                /\ inbox' = [inbox EXCEPT ![s] = Append(@, r)]
                /\ owed' = IF r.stream THEN owed ELSE [owed EXCEPT ![s] = @ \ {r}]
        BY <1>5 DEF Answers
      <3>3. ~OverWith
        BY DEF AtStep, OverWith
      <3>4. Awaited(s) /\ s = Top.link /\ owed[s] = {Top.req} /\ inbox[s] = <<>> /\ r = Top.req
            /\ ~r.stream
        BY <3>2, <3>3 DEF OneAtATime, Silent, Awaited
      <3>5. /\ inbox \in [Sessions -> Seq(Request)] /\ owed \in [Sessions -> SUBSET Request]
            /\ Append(<<>>, r) = <<r>>
        BY DEF TInv, TypeOK, NetOK
      <3>6. owed'[s] = {} /\ inbox'[s] = <<r>>
        BY <3>2, <3>4, <3>5
      <3> QED BY <1>2, <3>4, <3>6 DEF Awaited
    <2> QED BY <2>2, <2>3
  <1> QED BY <1>4, <1>5 DEF Environment

LEMMA ReadingStep ==
    ASSUME TInv, NEW B \in SUBSET Bodies, Paired(B), InScripts(B), OneAtATime,
           CallsBelow, Expecting, [Next]_vars
    PROVE  CallsBelow' /\ Expecting'
  <1>1. TInv'
    BY TypeStep
  <1>2. InScripts(B)'
    BY InScriptsStep DEF Paired
  <1>3. ASSUME UNCHANGED stack, pc' # "run" PROVE CallsBelow' /\ Expecting'
    BY <1>3 DEF CallsBelow, Expecting, AtStep
  <1>4. CASE \/ StartFlow \/ RunFlow \/ Block \/ EndOfSteps
             \/ \E s \in Sessions : ResponseValid(s)
    BY <1>1, <1>2, <1>4, ReadingSteps DEF Expecting
  <1>5. CASE Send
    BY <1>5, ReadingSend
  <1>6. CASE Environment
    BY <1>6, ReadingEnvironment
  <1>7. CASE CatchFlow \/ CatchOther \/ Finish \/ Shutdown \/ Render \/ RequestThrows \/ Borrow
             \/ ResponseFirst
    BY <1>3, <1>7 DEF CatchFlow, CatchOther, GiveUp, Finish, Shutdown, Render, RequestThrows,
                      Borrow, ResponseFirst, Throw
  <1>8. ASSUME NEW s \in Sessions, ResponseInvalid(s) \/ ResponseNotJson(s) \/ ReadThrows(s)
        PROVE  CallsBelow' /\ Expecting'
    BY <1>3, <1>8 DEF ResponseInvalid, ResponseNotJson, ReadThrows, Throw
  <1>9. CASE UnwindFrame
    <2>1. /\ pc' = "unwind" /\ Len(stack) \in Nat \ {0} /\ Len(stack') = Len(stack) - 1
          /\ \A i \in 1 .. Len(stack) - 1 : stack'[i] = stack[i]
      BY <1>9, UnwindStack
    <2>2. \A i \in 1 .. Len(stack') - 1 : i \in 1 .. Len(stack) - 1
      BY <2>1
    <2> QED BY <2>1, <2>2 DEF CallsBelow, Expecting, AtStep
  <1>10. CASE UNCHANGED vars
    BY <1>10 DEF vars, main, net, CallsBelow, Expecting, Awaited, AtStep, StepNow, Top
  <1> QED BY <1>4, <1>5, <1>6, <1>7, <1>8, <1>9, <1>10 DEF Next, Main, Ended

\* In scripts of pairs, a response step finds a reply that is owed or there, or a
\* lost connection, whose read throws: it never waits for a message nobody sends.
THEOREM ReadsAlways ==
    ASSUME NEW B \in SUBSET Bodies, Paired(B)
    PROVE  Spec => []ReadsAreAnswered
  <1> DEFINE PInv == InScripts(B) /\ OneAtATime /\ OwnReply /\ CallsBelow /\ Expecting
  <1>1. Init => PInv
    <2> SUFFICES ASSUME Init PROVE PInv
      OBVIOUS
    <2>1. Len(stack) = 0 /\ 1 .. 0 - 1 = {} /\ pc = "schedule" /\ \A s \in Sessions : Silent(s)
      BY DEF Init, Silent
    <2> QED BY <2>1 DEF Init, InScripts, OneAtATime, OwnReply, CallsBelow, Expecting, AtStep
  <1>2. TInv /\ PInv /\ [Next]_vars => PInv'
    BY InScriptsStep, OwnReplyStep, ReadingStep DEF Paired
  <1>3. PInv => ReadsAreAnswered
    <2> SUFFICES ASSUME PInv, HungOnRead PROVE conn[Top.link] = "lost"
      BY DEF ReadsAreAnswered
    <2>1. ~Awaited(Top.link)
      <3>1. {Top.req} # {} /\ <<Top.req>> # <<>>
        OBVIOUS
      <3> QED BY <3>1 DEF HungOnRead, Awaited
    <2> QED BY <2>1 DEF HungOnRead, Expecting
  <1> HIDE DEF PInv
  <1> QED BY <1>1, <1>2, <1>3, TypeInvariance, PTL DEF Spec

-----------------------------------------------------------------------------
\* What an exception in flight still has to collect.

\* The issues collected so far and the frames still to be left make the trail.
Trailing ==
    pc = "unwind" /\ exc.kind = "flow" =>
        /\ Len(trail) = Len(exc.issues) + (IF stack = <<>> THEN 0 ELSE Len(stack) - 1)
        /\ \A i \in 1 .. Len(exc.issues) : trail[i] = exc.issues[i]
        /\ \A i \in 1 .. Len(stack) - 1 :
              trail[Len(exc.issues) + i] = stack[Len(stack) + 1 - i].kind

Told == Trailing /\ FailureTellsTheTrail

LEMMA ControlFacts ==
    TInv => /\ exc.issues \in Seq(Causes) /\ trail \in Seq(Causes) /\ stack \in Seq(Frame)
            /\ exc.kind # "none" <=> pc = "unwind"
            /\ reports \in Seq([name : Names, ok : BOOLEAN, issues : Seq(Causes)])
  BY DEF TInv, TypeOK, ControlOK, StackOK

\* A step that throws a FlowException: its cause, then the frames above the root.
LEMMA ToldWhenThrown ==
    ASSUME TInv, stack # <<>>, UNCHANGED stack, NEW cause \in Causes, Throw("flow", cause)
    PROVE  Told'
  <1> DEFINE n == Len(stack)
  <1>1. n \in Nat \ {0} /\ \A i \in 1 .. n : stack[i].kind \in Causes
    <2>1. n \in Nat \ {0} /\ \A i \in 1 .. n : stack[i] \in Frame
      BY ControlFacts
    <2> QED BY <2>1 DEF Frame, Causes
  <1>2. /\ pc' = "unwind" /\ exc' = [kind |-> "flow", issues |-> <<cause>>]
        /\ trail' = <<cause>> \o NonRootKinds
        /\ NonRootKinds = [i \in 1 .. n - 1 |-> stack[n + 1 - i].kind]
    BY DEF Throw, NonRootKinds
  <1>3. stack' = stack /\ stack # <<>> /\ Len(stack') = n
    OBVIOUS
  <1> HIDE DEF n
  <1>4. NonRootKinds \in Seq(Causes) /\ Len(NonRootKinds) = n - 1
    <2>1. \A i \in 1 .. n - 1 : n + 1 - i \in 1 .. n
      BY <1>1
    <2> QED BY <1>1, <1>2, <2>1
  <1>5. /\ Len(trail') = 1 + (n - 1) /\ trail'[1] = cause
        /\ \A i \in 1 .. n - 1 : trail'[1 + i] = NonRootKinds[i]
    <2>1. <<cause>> \in Seq(Causes) /\ Len(<<cause>>) = 1 /\ <<cause>>[1] = cause
      OBVIOUS
    <2> QED BY <1>1, <1>2, <1>4, <2>1, ConcatProperties
  <1>6. Len(exc'.issues) = 1 /\ exc'.issues[1] = cause
    BY <1>2
  <1>7. Trailing'
    BY <1>1, <1>2, <1>3, <1>4, <1>5, <1>6 DEF Trailing
  <1> QED BY <1>2, <1>7 DEF Told, FailureTellsTheTrail

\* run_flow and block add themselves last, and each frame only once.
LEMMA ToldWhenUnwound == ASSUME TInv, Told, UnwindFrame PROVE Told'
  <1> DEFINE n == Len(stack)
             m == Len(exc.issues)
  <1>1. /\ pc = "unwind" /\ pc' = "unwind" /\ n \in Nat \ {0} /\ Len(stack') = n - 1
        /\ \A i \in 1 .. n - 1 : stack'[i] = stack[i]
        /\ Top = stack[n] /\ trail' = trail /\ stack' \in Seq(Frame)
    BY UnwindStack DEF UnwindFrame, ghosts
  <1>2. Top.kind \in Causes /\ (Top.kind = "flow" <=> n = 1)
    <2>1. Top \in Frame /\ n \in 1 .. n
      BY <1>1, UnwindStack
    <2> QED BY <1>1, <2>1 DEF Frame, Causes, TInv, Shape
  <1>3. /\ exc.issues \in Seq(Causes) /\ m \in Nat /\ trail \in Seq(Causes)
    BY ControlFacts
  <1>4. exc' = IF exc.kind = "flow" /\ n # 1
               THEN [exc EXCEPT !.issues = Append(@, Top.kind)] ELSE exc
    BY <1>2 DEF UnwindFrame, WithIssue
  <1>5. ASSUME exc'.kind = "flow" PROVE Trailing'
    <2>1. exc.kind = "flow"
      BY <1>4, <1>5
    <2>2. /\ Len(trail) = m + (n - 1)
          /\ \A i \in 1 .. m : trail[i] = exc.issues[i]
          /\ \A i \in 1 .. n - 1 : trail[m + i] = stack[n + 1 - i].kind
      <3>1. stack # <<>> /\ pc = "unwind"
        BY DEF UnwindFrame
      <3>2. Trailing
        BY <2>1, <3>1 DEF Told
      <3> QED BY <2>1, <3>1, <3>2 DEF Trailing
    <2>3. CASE n = 1
      <3>1. exc' = exc /\ stack' = <<>> /\ Len(stack') = 0
        BY <1>1, <1>4, <2>3
      <3> QED BY <1>1, <1>3, <2>2, <2>3, <3>1 DEF Trailing
    <2>4. CASE n # 1
      <3>1. exc.issues \in Seq(Causes) /\ exc'.issues = Append(exc.issues, Top.kind)
        <4>1. exc \in [kind : {"none", "flow", "other"}, issues : Seq(Causes)]
          BY DEF TInv, TypeOK, ControlOK
        <4> QED BY <1>4, <2>1, <2>4, <4>1
      <3>2. /\ Len(exc'.issues) = m + 1 /\ exc'.issues[m + 1] = Top.kind
            /\ \A i \in 1 .. m : exc'.issues[i] = exc.issues[i]
        BY <1>2, <3>1, AppendProperties
      <3>3. stack' # <<>>
        BY <1>1, <2>4
      <3> HIDE DEF n, m
      <3>4. Len(trail') = (m + 1) + ((n - 1) - 1)
        BY <1>1, <1>3, <2>2
      <3>5. \A i \in 1 .. m + 1 : trail'[i] = exc'.issues[i]
        <4>1. \A i \in 1 .. m + 1 : i \in 1 .. m \/ i = m + 1
          BY <1>3
        <4>2. 1 \in 1 .. n - 1 /\ n + 1 - 1 = n
          BY <1>1, <2>4
        <4>3. trail[m + 1] = Top.kind
          BY <1>1, <2>2, <4>2
        <4> QED BY <1>1, <2>2, <3>2, <4>1, <4>3
      <3>6. \A i \in 1 .. (n - 1) - 1 : trail'[(m + 1) + i] = stack'[(n - 1) + 1 - i].kind
        <4> TAKE i \in 1 .. (n - 1) - 1
        <4>1. i + 1 \in 1 .. n - 1 /\ n + 1 - (i + 1) = n - i /\ n - i \in 1 .. n - 1
              /\ (m + 1) + i = m + (i + 1) /\ (n - 1) + 1 - i = n - i
          BY <1>1, <1>3
        <4>2. trail[m + (i + 1)] = stack[n + 1 - (i + 1)].kind
          BY <2>2, <4>1
        <4> QED BY <1>1, <4>1, <4>2
      <3> QED BY <1>1, <3>2, <3>3, <3>4, <3>5, <3>6 DEF Trailing
    <2> QED BY <2>3, <2>4
  <1> QED BY <1>1, <1>5 DEF Told, Trailing, FailureTellsTheTrail

\* The scheduler reports the issues when no frame is left.
LEMMA ToldWhenCaught == ASSUME TInv, Told, CatchFlow PROVE Told'
  <1>1. /\ pc = "unwind" /\ stack = <<>> /\ exc.kind = "flow" /\ pc' = "schedule"
        /\ trail' = trail /\ ReportFlow(FALSE, exc.issues)
    BY DEF CatchFlow, ghosts
  <1>2. /\ exc.issues \in Seq(Causes) /\ trail \in Seq(Causes)
        /\ Len(trail) = Len(exc.issues)
        /\ \A i \in 1 .. Len(exc.issues) : trail[i] = exc.issues[i]
    BY <1>1, ControlFacts DEF Told, Trailing
  <1>3. trail = exc.issues
    BY <1>2, SeqEqual
  <1> DEFINE r == [name |-> plan[next - 1], ok |-> FALSE, issues |-> exc.issues]
  <1>4. reports' = Append(reports, r)
    BY <1>1 DEF ReportFlow
  <1>5. Last(reports').issues = exc.issues
    <2>1. r.issues = exc.issues
      OBVIOUS
    <2>2. Len(reports') = Len(reports) + 1 /\ reports'[Len(reports) + 1] = r
      BY <1>4, ControlFacts
    <2> QED BY <2>1, <2>2 DEF Last
  <1> QED BY <1>1, <1>3, <1>5 DEF Told, Trailing, FailureTellsTheTrail

LEMMA ToldWhenEnded == ASSUME TInv, Told, EndOfSteps PROVE Told'
  <1>1. pc' = "run" \/ (pc' = "schedule" /\ ReportFlow(TRUE, <<>>))
    BY EndStack
  <1> DEFINE r == [name |-> plan[next - 1], ok |-> TRUE, issues |-> <<>>]
  <1>2. ASSUME ReportFlow(TRUE, <<>>) PROVE Last(reports').ok
    <2>1. reports' = Append(reports, r) /\ r.ok = TRUE
      BY <1>2 DEF ReportFlow
    <2>2. Len(reports') = Len(reports) + 1 /\ reports'[Len(reports) + 1] = r
      BY <2>1, ControlFacts
    <2> QED BY <2>1, <2>2 DEF Last
  <1> QED BY <1>1, <1>2 DEF Told, Trailing, FailureTellsTheTrail

LEMMA ToldStep == TInv /\ Told /\ [Next]_vars => Told'
  <1> SUFFICES ASSUME TInv, Told, [Next]_vars PROVE Told'
    OBVIOUS
  <1>1. pc' \notin {"unwind", "schedule"} => Told'
    BY DEF Told, Trailing, FailureTellsTheTrail
  <1>2. pc' = "unwind" /\ exc'.kind = "other" => Told'
    BY DEF Told, Trailing, FailureTellsTheTrail
  <1>3. UNCHANGED <<pc, exc, stack, trail, reports>> => Told'
    BY DEF Told, Trailing, FailureTellsTheTrail
  <1>4. ASSUME NEW cause, Throw("other", cause) PROVE Told'
    BY <1>2, <1>4 DEF Throw
  <1>5. ASSUME NEW cause \in {"request", "response"}, Throw("flow", cause), UNCHANGED stack,
               stack # <<>>
        PROVE  Told'
    BY <1>5, ToldWhenThrown DEF Causes
  <1>6. CASE StartFlow \/ RunFlow
    BY <1>1, <1>4, <1>6 DEF StartFlow, RunFlow, Enter
  <1>7. CASE CatchOther \/ Finish \/ Shutdown \/ Render \/ Borrow \/ Send \/ Block
    BY <1>1, <1>7 DEF CatchOther, GiveUp, Finish, Shutdown, Render, Borrow, Send, Block,
                      Enter, AtStep
  <1>8. CASE RequestThrows
    BY <1>5, <1>8, AtStepFacts DEF RequestThrows, TInv, TypeOK
  <1>9. CASE ResponseFirst
    BY <1>4, <1>9 DEF ResponseFirst
  <1>10. ASSUME NEW s \in Sessions,
                ResponseValid(s) \/ ResponseInvalid(s) \/ ResponseNotJson(s) \/ ReadThrows(s)
         PROVE  Told'
    <2>1. pc = "run" /\ stack # <<>>
      BY <1>10, AtStepFacts DEF ResponseValid, ResponseInvalid, ResponseNotJson, ReadThrows,
                                Receive, TInv, TypeOK
    <2>2. CASE ResponseValid(s)
      BY <1>1, <2>1, <2>2 DEF ResponseValid
    <2>3. CASE ResponseInvalid(s)
      BY <1>5, <2>1, <2>3 DEF ResponseInvalid
    <2>4. CASE ResponseNotJson(s) \/ ReadThrows(s)
      BY <1>4, <2>4 DEF ResponseNotJson, ReadThrows
    <2> QED BY <1>10, <2>2, <2>3, <2>4
  <1>11. CASE Environment \/ UNCHANGED vars
    <2>1. UNCHANGED trail
      BY <1>11 DEF Environment, Connects, ConnectFails, Loses, Becomes, Answers, ghosts, vars
    <2>2. UNCHANGED <<pc, exc, stack, reports>>
      BY <1>11, EnvironmentTypes DEF main, vars
    <2> QED BY <1>3, <2>1, <2>2
  <1> QED BY <1>6, <1>7, <1>8, <1>9, <1>10, <1>11, ToldWhenCaught, ToldWhenEnded, ToldWhenUnwound
          DEF Next, Main, Ended

\* A FailureEvent lists the cause and then the blocks and subflows around it,
\* innermost first, each once, however deep the flow was.
THEOREM TrailAlways == Spec => []FailureTellsTheTrail
  <1>1. Init => Told
    BY DEF Init, Told, Trailing, FailureTellsTheTrail
  <1> QED BY <1>1, ToldStep, TypeInvariance, PTL DEF Spec, Told

-----------------------------------------------------------------------------
\* The schedule: which flow of the plan is being executed.

Executing == {"run", "borrow", "establish", "unwind"}

Counted ==
    /\ status = "running" <=> pc \notin {"shutdown", "exit", "aborted"}
    /\ pc = "schedule" => next = Len(reports) + 1
    /\ pc \in Executing => next = Len(reports) + 2

\* Steps inside of a flow, and those of the environment.
Quiet == /\ UNCHANGED <<plan, next, reports, status>>
         /\ pc' = pc \/ (pc \in Executing /\ pc' \in Executing)

LEMMA QuietSteps ==
    ASSUME TInv,
           \/ Render \/ RequestThrows \/ Borrow \/ Send \/ ResponseFirst \/ Block \/ UnwindFrame
           \/ \E s \in Sessions : \/ ResponseValid(s) \/ ResponseInvalid(s)
                                  \/ ResponseNotJson(s) \/ ReadThrows(s)
           \/ Environment \/ UNCHANGED vars
    PROVE  Quiet
  <1>1. ASSUME Render \/ RequestThrows \/ Borrow \/ Send \/ ResponseFirst \/ UnwindFrame PROVE Quiet
    BY <1>1 DEF Quiet, Executing, Render, RequestThrows, Borrow, Send, ResponseFirst, UnwindFrame,
                AtStep, Throw
  <1>2. ASSUME Block PROVE Quiet
    BY <1>2 DEF Quiet, Executing, Block, AtStep, Enter
  <1>3. ASSUME NEW s \in Sessions,
               ResponseValid(s) \/ ResponseInvalid(s) \/ ResponseNotJson(s) \/ ReadThrows(s)
        PROVE  Quiet
    BY <1>3 DEF Quiet, Executing, ResponseValid, ResponseInvalid, ResponseNotJson, ReadThrows,
                Receive, AtStep, Throw
  <1>4. ASSUME Environment \/ UNCHANGED vars PROVE Quiet
    BY <1>4, EnvironmentTypes DEF Quiet, vars, main
  <1> QED BY <1>1, <1>2, <1>3, <1>4

Names2Oks(reps) == [i \in DOMAIN reps |-> [name |-> reps[i].name, ok |-> reps[i].ok]]

LEMMA OneMoreReport ==
    ASSUME NEW S, NEW reps \in Seq(S), NEW r \in S
    PROVE  Names2Oks(Append(reps, r)) =
               Append(Names2Oks(reps), [name |-> r.name, ok |-> r.ok])
  <1> DEFINE n == Len(reps)
             e == [name |-> r.name, ok |-> r.ok]
             new == Append(reps, r)
             old == Names2Oks(reps)
  <1>1. /\ n \in Nat /\ DOMAIN reps = 1 .. n /\ DOMAIN new = 1 .. n + 1
        /\ new[n + 1] = r /\ \A i \in 1 .. n : new[i] = reps[i]
    OBVIOUS
  <1>2. old = [i \in 1 .. n |-> [name |-> reps[i].name, ok |-> reps[i].ok]]
    BY <1>1 DEF Names2Oks
  <1> HIDE DEF e, new, n
  <1>3. /\ Len(old) = n /\ DOMAIN Append(old, e) = 1 .. n + 1
        /\ Append(old, e)[n + 1] = e
        /\ \A i \in 1 .. n : Append(old, e)[i] = [name |-> reps[i].name, ok |-> reps[i].ok]
        /\ Append(old, e) = [i \in 1 .. n + 1 |-> Append(old, e)[i]]
    BY <1>1, <1>2
  <1>4. Names2Oks(new) = [i \in 1 .. n + 1 |-> [name |-> new[i].name, ok |-> new[i].ok]]
    BY <1>1 DEF Names2Oks
  <1>5. \A i \in 1 .. n + 1 : [name |-> new[i].name, ok |-> new[i].ok] = Append(old, e)[i]
    BY <1>1, <1>3 DEF e
  <1> QED BY <1>3, <1>4, <1>5 DEF e, new

LEMMA ReportsOne ==
    ASSUME TInv, Counted, pc \in Executing, NEW ok \in BOOLEAN, NEW issues \in Seq(Causes),
           ReportFlow(ok, issues), UNCHANGED <<plan, next, status>>, pc' = "schedule"
    PROVE  Counted' /\ Schedule!Report(ok)
  <1> DEFINE R == [name : Names, ok : BOOLEAN, issues : Seq(Causes)]
             r == [name |-> plan[next - 1], ok |-> ok, issues |-> issues]
  <1>1. /\ reports \in Seq(R) /\ plan \in Seq(Names) /\ next \in 1 .. Len(plan) + 1
        /\ next = Len(reports) + 2 /\ status = "running"
    BY FlowAssumption DEF TInv, TypeOK, ControlOK, Counted, Executing
  <1>2. plan[next - 1] \in Names /\ next - 1 = Len(reports) + 1 /\ Len(reports) < Len(plan)
    BY <1>1
  <1>3. r \in R /\ r.name = plan[Len(reports) + 1] /\ r.ok = ok
    BY <1>2
  <1>4. reports' = Append(reports, r)
    BY DEF ReportFlow
  <1> HIDE DEF R, r
  <1>5. Names2Oks(reports') = Append(Names2Oks(reports), [name |-> r.name, ok |-> r.ok])
    BY <1>1, <1>3, <1>4, OneMoreReport
  <1>6. Len(reports') = Len(reports) + 1 /\ Len(Names2Oks(reports)) = Len(reports)
    BY <1>1, <1>4 DEF Names2Oks
  <1>7. Counted'
    BY <1>1, <1>6 DEF Counted, Executing
  <1>8. Schedule!Report(ok)
    BY <1>1, <1>2, <1>3, <1>5, <1>6 DEF Schedule!Report, Names2Oks
  <1> QED BY <1>7, <1>8

LEMMA ScheduleStep ==
    TInv /\ Counted /\ [Next]_vars => Counted' /\ [Schedule!Next]_(Schedule!vars)
  <1> SUFFICES ASSUME TInv, Counted, [Next]_vars
               PROVE  Counted' /\ [Schedule!Next]_(Schedule!vars)
    OBVIOUS
  <1>1. /\ reports \in Seq([name : Names, ok : BOOLEAN, issues : Seq(Causes)])
        /\ plan \in Seq(Names) /\ next \in 1 .. Len(plan) + 1
        /\ exc.issues \in Seq(Causes)
    BY FlowAssumption DEF TInv, TypeOK, ControlOK
  <1>2. Len(Names2Oks(reports)) = Len(reports)
    BY <1>1 DEF Names2Oks
  <1>3. CASE Quiet
    BY <1>3 DEF Quiet, Counted, Executing, Schedule!vars
  <1>4. CASE StartFlow
    <2>1. /\ pc = "schedule" /\ pc' \in {"run", "unwind"} /\ next' = next + 1
          /\ UNCHANGED <<plan, reports, status>>
      BY <1>4 DEF StartFlow, Enter, Throw
    <2> QED BY <1>1, <2>1 DEF Counted, Executing, Schedule!vars
  <1>5. CASE CatchFlow
    <2>1. /\ pc \in Executing /\ ReportFlow(FALSE, exc.issues) /\ pc' = "schedule"
          /\ UNCHANGED <<plan, next, status>>
      BY <1>5 DEF CatchFlow, Executing
    <2> QED BY <1>1, <2>1, ReportsOne DEF Schedule!Next
  <1>6. CASE CatchOther
    <2>1. /\ pc = "unwind" /\ pc' = "shutdown" /\ status' = "failure"
          /\ UNCHANGED <<plan, next, reports>>
      BY <1>6 DEF CatchOther, GiveUp
    <2>2. status = "running" /\ Len(reports) < Len(plan)
      BY <1>1, <2>1 DEF Counted, Executing
    <2>3. Schedule!GiveUp("failure")
      BY <1>2, <2>1, <2>2 DEF Schedule!GiveUp, Names2Oks
    <2> QED BY <2>1, <2>3 DEF Counted, Executing, Schedule!Next
  <1>7. CASE Finish
    <2>1. /\ pc = "schedule" /\ pc' = "shutdown" /\ status' = "success" /\ next > Len(plan)
          /\ UNCHANGED <<plan, next, reports>>
      BY <1>7 DEF Finish
    <2>2. status = "running" /\ Len(reports) = Len(plan)
      BY <1>1, <2>1 DEF Counted
    <2>3. Schedule!Succeed
      BY <1>2, <2>1, <2>2 DEF Schedule!Succeed, Names2Oks
    <2> QED BY <2>1, <2>3 DEF Counted, Executing, Schedule!Next
  <1>8. CASE Shutdown
    BY <1>8 DEF Shutdown, Counted, Executing, Schedule!vars
  <1>9. CASE RunFlow
    <2>1. /\ pc = "run" /\ UNCHANGED <<plan, next, reports>>
          /\ \/ pc' \in {"run", "unwind"} /\ UNCHANGED status
             \/ pc' = "aborted" /\ status' = "aborted"
      BY <1>9 DEF RunFlow, AtStep, Enter, Throw
    <2>2. CASE pc' = "aborted" /\ status' = "aborted"
      <3>1. status = "running" /\ Len(reports) < Len(plan)
        BY <1>1, <2>1 DEF Counted, Executing
      <3>2. Schedule!GiveUp("aborted")
        BY <1>2, <2>1, <2>2, <3>1 DEF Schedule!GiveUp, Names2Oks
      <3> QED BY <2>1, <2>2, <3>2 DEF Counted, Executing, Schedule!Next
    <2> QED BY <1>3, <2>1, <2>2 DEF Quiet, Executing
  <1>10. CASE EndOfSteps
    <2>1. /\ pc = "run" /\ UNCHANGED <<plan, next, status>>
          /\ \/ pc' = "schedule" /\ ReportFlow(TRUE, <<>>)
             \/ pc' = "run" /\ UNCHANGED reports
      BY <1>10, EndStack DEF EndOfSteps
    <2>2. CASE pc' = "schedule" /\ ReportFlow(TRUE, <<>>)
      <3>1. pc \in Executing /\ <<>> \in Seq(Causes)
        BY <2>1 DEF Executing
      <3> QED BY <2>1, <2>2, <3>1, ReportsOne DEF Schedule!Next
    <2> QED BY <1>3, <2>1, <2>2 DEF Quiet
  <1> QED
    BY <1>3, <1>4, <1>5, <1>6, <1>7, <1>8, <1>9, <1>10, QuietSteps DEF Next, Main, Ended

\* Each flow of the plan gets one report, in order, and the process succeeds
\* only when all have theirs, whatever the scripts do.
THEOREM ScheduleKept == Spec => KeepsSchedule
  <1>1. Init => Counted
    BY DEF Init, Counted, Executing
  <1>2. Init => Schedule!Init
    BY DEF Init, Schedule!Init
  <1> QED
    BY <1>1, <1>2, ScheduleStep, TypeInvariance, PTL DEF Spec, KeepsSchedule, Schedule!Spec
=============================================================================
