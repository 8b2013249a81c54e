------------------------- MODULE EnvironmentProofs -------------------------
(***************************************************************************)
(* A read of a variable yields what the flow gave it last (ReadsLatest in  *)
(* Environment), for any variables, env.json files and nesting.  Two facts *)
(* make it inductive: all references a flow's steps and functions use lead *)
(* to one store, and this store holds what the variables were given last.  *)
(***************************************************************************)
EXTENDS Environment, TLAPS, SequenceTheorems

Active == pc \in {"run", "render"}

OneStore == Active => \A i \in DOMAIN stack : stack[i] = captured

\* The value v of a variable is right when it was last given w.
Right(v, w) == \/ w # Absent /\ v = w
               \/ w = Absent /\ v \in {Null, Absent}
Agree == Active => \A x \in Vars : Right(heap[captured][x], latest[x])

IInv == TypeOK /\ OneStore /\ Agree /\ ReadsLatest

\* All the proofs below need of the values.
LEMMA Values ==
    /\ Null # Absent
    /\ \A f \in Nat : FileValue(f) \in Value /\ FileValue(f) # Absent
    /\ \A k \in {"made", "message", "body", "json", "error"} :
          made \in Nat => Fresh(k) \in Value /\ Fresh(k) # Absent
    /\ Null \notin Value /\ Absent \notin Value
<1>1. Null # Absent  BY DEF Null, Absent
<1>2. Null \notin Value /\ Absent \notin Value  BY DEF Null, Absent, Value
<1>3. ASSUME NEW f \in Nat  PROVE FileValue(f) \in Value  BY DEF FileValue, Value
<1>4. ASSUME NEW k \in {"made", "message", "body", "json", "error"}, made \in Nat
      PROVE  Fresh(k) \in Value  BY <1>4 DEF Fresh, Value
<1> QED  BY <1>1, <1>2, <1>3, <1>4

USE EnvironmentAssumption
HIDE DEF Null, Absent, FileValue, Fresh, Value

LEMMA InitInv == Init => IInv
BY Values DEF Init, IInv, TypeOK, OneStore, Agree, Active, ReadsLatest, Store

\* Reading through a reference that leads to the one store.
LEMMA OneReference ==
    ASSUME IInv, Active  PROVE  Top = captured /\ captured \in DOMAIN heap /\ heap[captured] \in Store
<1>1. stack # <<>> /\ Len(stack) \in DOMAIN stack  BY DEF IInv, TypeOK, Active
<1> QED  BY <1>1 DEF IInv, TypeOK, OneStore, Active, Top

\* The part of a step in which pc and the references stay as they are, and the
\* store changes in one variable.
LEMMA Changes ==
    ASSUME IInv, Active, NEW x \in Vars, NEW v \in Value \cup {Null},
           Put(captured, x, v)
    PROVE  /\ heap' \in Seq(Store) /\ DOMAIN heap' = DOMAIN heap
           /\ latest' \in Store
           /\ \A y \in Vars : Right(heap'[captured][y], latest'[y])
<1>1. captured \in DOMAIN heap /\ heap[captured] \in Store  BY OneReference
<1>2. \A y \in Vars : Right(heap[captured][y], latest[y])  BY DEF IInv, Agree
<1>3. heap \in Seq(Store) /\ latest \in Store  BY DEF IInv, TypeOK
<1>4. heap'[captured] = [heap[captured] EXCEPT ![x] = v]  BY <1>1 DEF Put
<1>5. v # Absent  BY Values
<1>6. heap' \in Seq(Store) /\ DOMAIN heap' = DOMAIN heap
  <2>1. [heap[captured] EXCEPT ![x] = v] \in Store  BY <1>1 DEF Store
  <2>2. heap' = [heap EXCEPT ![captured] = [heap[captured] EXCEPT ![x] = v]]  BY <1>1 DEF Put
  <2> QED  BY <2>1, <2>2, <1>1, <1>3
<1>7. latest' = [latest EXCEPT ![x] = v] /\ latest' \in Store  BY <1>3 DEF Put, Store
<1>8. ASSUME NEW y \in Vars  PROVE Right(heap'[captured][y], latest'[y])
  <2>1. CASE y = x  BY <2>1, <1>1, <1>3, <1>4, <1>5, <1>7 DEF Right, Store
  <2>2. CASE y # x  BY <2>2, <1>1, <1>2, <1>3, <1>4, <1>7 DEF Store
  <2> QED  BY <2>1, <2>2
<1> QED  BY <1>6, <1>7, <1>8

\* A step that gives one variable a value, and reads nothing.
LEMMA Keeps ==
    ASSUME IInv, Active, NEW x \in Vars, NEW v \in Value \cup {Null},
           Put(captured, x, v), pc' = "render", made' \in Nat,
           UNCHANGED <<flow, captured, stack, read>>
    PROVE  IInv'
<1>1. /\ heap' \in Seq(Store) /\ DOMAIN heap' = DOMAIN heap
      /\ latest' \in Store
      /\ \A y \in Vars : Right(heap'[captured][y], latest'[y])
  BY Changes
<1>2. TypeOK'  BY <1>1 DEF IInv, TypeOK, Active
<1>3. OneStore' /\ Agree' /\ ReadsLatest'
  BY <1>1 DEF IInv, OneStore, Agree, Active, ReadsLatest
<1> QED  BY <1>2, <1>3 DEF IInv

\* A read of the one store.
LEMMA Reads ==
    ASSUME IInv, NEW x \in Vars, NEW v \in Value \cup {Null}, Right(v, latest[x]), Saw(x, v)
    PROVE  /\ read' \in [val : Value \cup {Null}, want : Value \cup {Null, Absent}]
           /\ ReadsLatest'
<1>1. latest[x] \in Value \cup {Null, Absent}  BY DEF IInv, TypeOK, Store
<1>2. v # Absent  BY Values
<1> QED  BY <1>1, <1>2 DEF Saw, Right, ReadsLatest

LEMMA StepInv == IInv /\ [Next]_vars => IInv'
<1> SUFFICES ASSUME IInv, [Next]_vars  PROVE IInv'
    OBVIOUS
<1> USE DEF IInv
<1>1. CASE StartFlow
  <2>1. flow + 1 \in 1 .. LastFlow /\ Loaded(flow + 1) \in Store
    BY <1>1, Values DEF StartFlow, TypeOK, Store, Loaded
  <2>2. \A x \in Vars : Loaded(flow + 1)[x] \in Value \cup {Absent}
    BY <2>1, Values DEF Loaded
  <2>3. TypeOK'
    <3>1. heap' \in Seq(Store) /\ DOMAIN heap' = {1}  BY <1>1, <2>1 DEF StartFlow
    <3>2. stack' \in Seq(DOMAIN heap') /\ stack' # <<>> /\ captured' \in DOMAIN heap'
      BY <1>1, <3>1 DEF StartFlow
    <3> QED  BY <1>1, <2>1, <3>1, <3>2 DEF StartFlow, TypeOK
  <2>4. OneStore'  BY <1>1 DEF StartFlow, OneStore
  <2>5. Agree'
    <3>1. heap'[captured'] = latest' /\ latest' = Loaded(flow + 1)  BY <1>1 DEF StartFlow
    <3>2. ASSUME NEW x \in Vars  PROVE Right(latest'[x], latest'[x])
      BY <3>1, <2>2, Values DEF Right
    <3> QED  BY <3>1, <3>2 DEF Agree
  <2>6. ReadsLatest'  BY <1>1 DEF StartFlow, ReadsLatest
  <2> QED  BY <2>3, <2>4, <2>5, <2>6
<1>2. CASE Exit \/ Dies
  <2>1. pc' = "exit" /\ UNCHANGED <<flow, heap, captured, made, latest, read>>
    BY <1>2 DEF Exit, Dies
  <2>2. stack' = stack \/ stack' = <<>>  BY <1>2 DEF Exit, Dies
  <2>3. <<>> \in Seq(DOMAIN heap)  OBVIOUS
  <2>4. stack' \in Seq(DOMAIN heap)  BY <2>2, <2>3 DEF TypeOK
  <2> QED  BY <2>1, <2>4 DEF TypeOK, OneStore, Agree, Active, ReadsLatest
<1>3. CASE InnerRun
  <2>1. Top = captured /\ captured \in DOMAIN heap  BY <1>3, OneReference DEF InnerRun, Active
  <2>2. stack' = Append(stack, captured) /\ UNCHANGED <<pc, flow, heap, captured, made, latest, read>>
    BY <1>3, <2>1 DEF InnerRun, Inherit
  <2>3. TypeOK'
    <3>1. stack' \in Seq(DOMAIN heap) /\ stack' # <<>>  BY <2>1, <2>2 DEF TypeOK
    <3> QED  BY <2>1, <2>2, <3>1 DEF TypeOK
  <2>4. OneStore'  BY <1>3, <2>2 DEF TypeOK, OneStore, Active, InnerRun
  <2> QED  BY <2>2, <2>3, <2>4 DEF Agree, Active, ReadsLatest
<1>4. CASE Return
  <2>1. stack \in Seq(DOMAIN heap) /\ Len(stack) \in Nat \ {0}  BY <1>4 DEF Return, TypeOK
  <2>2. /\ stack' \in Seq(DOMAIN heap) /\ Len(stack') = Len(stack) - 1
        /\ \A i \in DOMAIN stack' : i \in DOMAIN stack /\ stack'[i] = stack[i]
    <3> DEFINE n == Len(stack) - 1
    <3>1. stack' = SubSeq(stack, 1, n)  BY <1>4 DEF Return
    <3>2. n \in Nat /\ n <= Len(stack)  BY <2>1
    <3> HIDE DEF n
    <3>3. \A i \in 1 .. n : stack[i] \in DOMAIN heap  BY <2>1, <3>2
    <3>4. /\ stack' \in Seq(DOMAIN heap)
          /\ Len(stack') = IF 1 <= n THEN n - 1 + 1 ELSE 0
          /\ \A i \in 1 .. n - 1 + 1 : stack'[i] = stack[1 + i - 1]
      BY <3>1, <3>2, <3>3, <2>1, SubSeqProperties
    <3>5. Len(stack') = n /\ \A i \in 1 .. n : stack'[i] = stack[i]  BY <3>2, <3>4
    <3>6. ASSUME NEW i \in DOMAIN stack'
          PROVE  i \in DOMAIN stack /\ stack'[i] = stack[i]
      <4>1. i \in 1 .. n  BY <3>4, <3>5
      <4>2. i \in 1 .. Len(stack)  BY <4>1, <3>2, <2>1
      <4> QED  BY <4>1, <4>2, <3>5, <2>1
    <3>7. Len(stack') = Len(stack) - 1  BY <3>5 DEF n
    <3> QED  BY <3>4, <3>6, <3>7
  <2>3. UNCHANGED <<flow, heap, captured, made, latest, read>> /\ pc = "run"
        /\ pc' \in {"between", "run"} /\ (pc' = "run" => Len(stack) # 1)
    BY <1>4 DEF Return
  <2>4. TypeOK'  BY <2>1, <2>2, <2>3 DEF TypeOK
  <2> QED  BY <2>2, <2>3, <2>4 DEF OneStore, Agree, Active, ReadsLatest
<1>5. CASE Request \/ Rendered \/ StepFails
  <2>1. CASE Request \/ Rendered
    BY <2>1 DEF Request, Rendered, TypeOK, OneStore, Agree, Active, ReadsLatest
  <2>2. CASE StepFails
    BY <2>2 DEF StepFails, FlowFails, TypeOK, OneStore, Agree, Active, ReadsLatest
  <2> QED  BY <1>5, <2>1, <2>2
<1>6. CASE Response
  <2>1. Top = captured  BY <1>6, OneReference DEF Response, Active
  <2>2. Put(captured, Res, Fresh("message")) /\ pc = "run" /\ pc' = "render"
        /\ UNCHANGED <<flow, captured, stack, read>> /\ made' \in Nat
    BY <1>6, <2>1 DEF Response, NewValue, TypeOK
  <2> QED
    BY <2>2, Values, Keeps DEF TypeOK, Vars, Active
<1>7. ASSUME NEW x \in Vars, Refer(x)  PROVE IInv'
  <2>1. Top = captured /\ heap[captured] \in Store  BY <1>7, OneReference DEF Refer, Active
  <2>2. heap[captured][x] \in Value \cup {Null}  BY <1>7, <2>1 DEF Refer, Store
  <2>3. Right(heap[captured][x], latest[x])  BY <1>7 DEF Refer, Agree, Active
  <2>4. read' \in [val : Value \cup {Null}, want : Value \cup {Null, Absent}] /\ ReadsLatest'
    BY <1>7, <2>1, <2>2, <2>3, Reads DEF Refer
  <2> QED  BY <1>7, <2>4 DEF Refer, TypeOK, OneStore, Agree, Active
<1>8. ASSUME NEW x \in Vars, Load(x)  PROVE IInv'
  <2> DEFINE v == LoadedValue(heap[captured][x])
  <2>1. captured \in DOMAIN heap /\ heap[captured] \in Store  BY <1>8, OneReference DEF Load, Active
  <2>2. v \in Value \cup {Null}  BY <2>1 DEF Store, LoadedValue
  <2>3. Right(heap[captured][x], latest[x])  BY <1>8 DEF Load, Agree, Active
  <2>4. Right(v, latest[x])  BY <2>3 DEF Right, LoadedValue
  <2>5. heap' = [heap EXCEPT ![captured][x] = v] /\ Saw(x, v)
        /\ UNCHANGED <<pc, flow, captured, stack, made, latest>>
    BY <1>8 DEF Load
  <2>6. read' \in [val : Value \cup {Null}, want : Value \cup {Null, Absent}] /\ ReadsLatest'
    BY <2>2, <2>4, <2>5, Reads
  <2> HIDE DEF v
  <2>7. heap'[captured] = [heap[captured] EXCEPT ![x] = v]  BY <2>1, <2>5
  <2>8. heap' \in Seq(Store) /\ DOMAIN heap' = DOMAIN heap
    <3>1. [heap[captured] EXCEPT ![x] = v] \in Store  BY <2>1, <2>2 DEF Store
    <3>2. heap' = [heap EXCEPT ![captured] = [heap[captured] EXCEPT ![x] = v]]  BY <2>1, <2>5
    <3> QED  BY <3>1, <3>2, <2>1 DEF TypeOK
  <2>9. ASSUME NEW y \in Vars  PROVE Right(heap'[captured][y], latest[y])
    <3>1. Right(heap[captured][y], latest[y])  BY <1>8 DEF Load, Agree, Active
    <3>2. CASE y = x  BY <3>2, <2>1, <2>4, <2>7 DEF Store
    <3>3. CASE y # x  BY <3>3, <3>1, <2>1, <2>7 DEF Store
    <3> QED  BY <3>2, <3>3
  <2> QED  BY <2>5, <2>6, <2>8, <2>9 DEF TypeOK, OneStore, Agree, Active
<1>9. ASSUME NEW x \in Vars, StoreMade(x)  PROVE IInv'
  <2>1. Put(captured, x, Fresh("made")) /\ pc = "render" /\ pc' = pc
        /\ UNCHANGED <<flow, captured, stack, read>> /\ made' \in Nat
    BY <1>9 DEF StoreMade, NewValue, TypeOK
  <2> QED  BY <2>1, Values, Keeps DEF TypeOK, Active
<1>10. ASSUME NEW x \in Vars, Fetch(x)  PROVE IInv'
  <2>1. pc = "render" /\ pc' = pc /\ UNCHANGED <<flow, captured, stack, read>> /\ made' \in Nat
    BY <1>10 DEF Fetch, NewValue, TypeOK
  <2>2. ASSUME NEW t \in Texts, Put(captured, x, Fresh(t))  PROVE IInv'
    <3>1. Fresh(t) \in Value  BY Values DEF Texts, TypeOK
    <3> QED  BY <2>1, <2>2, <3>1, Keeps DEF Active
  <2>3. CASE UNCHANGED <<heap, latest>>
    BY <2>1, <2>3 DEF TypeOK, OneStore, Agree, Active, ReadsLatest
  <2> QED  BY <1>10, <2>2, <2>3 DEF Fetch
<1>11. ASSUME NEW x \in Vars, FetchJson(x)  PROVE IInv'
  <2>1. pc = "render" /\ UNCHANGED read /\ made' \in Nat
    BY <1>11 DEF FetchJson, NewValue, TypeOK
  <2>2. CASE Put(captured, x, Fresh("json")) /\ UNCHANGED <<pc, flow, captured, stack>>
    BY <2>1, <2>2, Values, Keeps DEF TypeOK, Active
  <2>3. CASE FlowFails /\ UNCHANGED <<heap, latest>>
    BY <2>1, <2>3 DEF FlowFails, TypeOK, OneStore, Agree, Active, ReadsLatest
  <2>4. CASE UNCHANGED <<pc, flow, captured, stack, heap, latest>>
    BY <2>1, <2>4 DEF TypeOK, OneStore, Agree, Active, ReadsLatest
  <2> QED  BY <1>11, <2>2, <2>3, <2>4 DEF FetchJson
<1>12. ASSUME NEW x \in Vars, NEW y \in Vars, StoreCopy(y, x)  PROVE IInv'
  <2> DEFINE v == heap[captured][y]
  <2>1. Top = captured /\ heap[captured] \in Store  BY <1>12, OneReference DEF StoreCopy, Active
  <2>2. v \in Value \cup {Null}  BY <1>12, <2>1 DEF StoreCopy, Store
  <2>3. Right(v, latest[y])  BY <1>12 DEF StoreCopy, Agree, Active
  <2>4. Put(captured, x, v) /\ Saw(y, v) /\ pc = "render"
        /\ UNCHANGED <<pc, flow, captured, stack, made>>
    BY <1>12, <2>1 DEF StoreCopy
  <2> HIDE DEF v
  <2>5. read' \in [val : Value \cup {Null}, want : Value \cup {Null, Absent}] /\ ReadsLatest'
    BY <2>2, <2>3, <2>4, Reads
  <2>6. /\ heap' \in Seq(Store) /\ DOMAIN heap' = DOMAIN heap
        /\ latest' \in Store
        /\ \A z \in Vars : Right(heap'[captured][z], latest'[z])
    BY <2>2, <2>4, Changes DEF Active
  <2> QED  BY <2>4, <2>5, <2>6 DEF TypeOK, OneStore, Agree, Active
<1>13. CASE UNCHANGED vars
  BY <1>13 DEF vars, TypeOK, OneStore, Agree, Active, ReadsLatest
<1> QED
  BY <1>1, <1>2, <1>3, <1>4, <1>5, <1>6, <1>7, <1>8, <1>9, <1>10, <1>11, <1>12, <1>13
     DEF Next, Render

\* The variables of a run keep their types.
THEOREM TypeCorrect == Spec => []TypeOK
<1>1. IInv => TypeOK  BY DEF IInv
<1> QED  BY <1>1, InitInv, StepInv, PTL DEF Spec

\* A read of a variable yields what the flow gave it last, in whichever frame and
\* through whichever reference it is read.
THEOREM ReadsAlways == Spec => []ReadsLatest
<1>1. IInv => ReadsLatest  BY DEF IInv
<1> QED  BY <1>1, InitInv, StepInv, PTL DEF Spec
=============================================================================
