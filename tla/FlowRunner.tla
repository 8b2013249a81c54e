----------------------------- MODULE FlowRunner -----------------------------
(***************************************************************************)
(* The execution of a run of cliot: Scheduler (src/src/scheduler.hpp),     *)
(* FlowRunner (runner.hpp), the four kinds of steps (flow/step/), the flow *)
(* loader (flow/flow.hpp, flow/impl/) and the connections the steps borrow *)
(* (web/connection_manager.hpp, web/async_connection_pool.cpp).            *)
(*                                                                         *)
(* One thread, the main thread, runs everything above the connections; its *)
(* C++ call stack is the variable stack, one frame per active call of      *)
(* FlowRunner::run.  The io threads and the server are the environment:    *)
(* sessions connect, fail or are lost, and messages arrive, at any moment. *)
(* Since only the main thread dequeues from the pool and only it enqueues  *)
(* after the constructor, the pool's queue is a sequence here; AsyncQueue  *)
(* is the model of its inside.                                             *)
(***************************************************************************)
EXTENDS Naturals, Sequences, SequencesExt

CONSTANTS Bodies,         \* lists of steps, by name
          StepsOf,        \* StepsOf[b]: the steps of body b
          Disk,           \* Disk[d]: the body in directory d's script.yaml, or Malformed
          Plans,          \* what the crawler may hand to the scheduler
          Names,          \* directory names
          DataDir,        \* the --path option, a path
          PoolSize,       \* 4 in the code: sessions made, and capacity of the queue
          RepeatGarbage,  \* bound: what an uninitialised repeat counter may hold
          MaxUnread,      \* bound: updates a server pushes into an unread session
          Faults,         \* what may go wrong outside the main thread's control
          Absent,         \* no "repeat" in a block
          Malformed       \* a script.yaml that cannot be converted

Sessions  == 1 .. PoolSize
NoSession == 0   \* the null link_ptr_t

\* A path is the sequence of its components; a trailing slash is an empty last one.
Paths == Seq(Names \cup {"flows", ""})

\* The directory of the flow of that name.
FlowDir(name) == DataDir \o <<"flows", name>>

Step == [op : {"request"}, stream : BOOLEAN]   \* stream: the request subscribes
        \cup [op : {"response"}]
        \cup [op : {"run_flow"}, name : Names]
        \cup [op : {"block"}, body : Bodies, repeat : Nat \cup {Absent}]

FaultKinds == {"refuse", "drop", "notjson", "mismatch", "template"}

ASSUME FlowAssumption ==
    /\ StepsOf \in [Bodies -> Seq(Step)]
    /\ \A d \in DOMAIN Disk : Disk[d] \in Bodies \cup {Malformed}
    /\ Plans \subseteq Seq(Names)
    /\ \A p \in Plans : \A i \in DOMAIN p : FlowDir(p[i]) \in DOMAIN Disk
    /\ DataDir \in Paths
    /\ PoolSize \in Nat \ {0}
    /\ RepeatGarbage \subseteq Nat /\ MaxUnread \in Nat \ {0}
    /\ Faults \subseteq FaultKinds
    /\ Absent \notin Nat /\ Malformed \notin Bodies

VARIABLES
    pc,       \* what the main thread is doing
    plan,     \* flow_dirs, in the crawler's order
    next,     \* index of the flow the scheduler's loop takes next
    stack,    \* active FlowRunner::run calls, outermost first
    pending,  \* session dequeued by borrow() and not yet made the frame's link
    avail,    \* available_pool_, oldest first
    closed,   \* sessions handed to the pool's deleter
    conn,     \* connection state of each session
    owed,     \* requests the server still has to say something about, by session
    inbox,    \* messages that have arrived and were not read, by session
    sent,     \* number of requests written so far
    exc,      \* the exception in flight
    reports,  \* Success- and FailureEvents
    status,   \* how the process ended
    trail,    \* ghost: what a FailureEvent has to say about the latest failure
    got       \* ghost: the latest message read, and the request it was read for

main == <<pc, plan, next, stack, pending, exc, reports, status>>
pool == <<avail, closed>>
net  == <<conn, owed, inbox, sent>>
ghosts == <<trail, got>>
vars == <<main, pool, net, ghosts>>

\* A request as the server and the reader know it: its number, the top-level
\* flow that sent it, whether it subscribes to a stream.  A message from the
\* server is represented by the request that caused it.
Request == [n : Nat, flow : Nat, stream : BOOLEAN]
NoRequest == [n |-> 0, flow |-> 0, stream |-> FALSE]

\* One call of FlowRunner::run(env, store, flow): its steps, the directory they
\* are relative to, the step it is at, its connection_link, (ghost) the request
\* sent on that link, and for a block the iterations left, this one included.
Frame == [kind : {"flow", "subflow", "block"}, body : Bodies, base : Paths,
          at : Nat \ {0}, link : Sessions \cup {NoSession}, req : Request,
          left : Nat \ {0}]

\* What an issue of a FlowException names: the step, or the frame, that added it.
Causes == {"request", "response", "yaml", "flow", "subflow", "block"}

NoException == [kind |-> "none", issues |-> <<>>]

ControlOK ==
    /\ pc \in {"schedule", "run", "borrow", "establish", "unwind", "shutdown", "exit", "aborted"}
    /\ plan \in Plans /\ next \in 1 .. Len(plan) + 1
    /\ status \in {"running", "success", "failure", "aborted"}
    /\ exc \in [kind : {"none", "flow", "other"}, issues : Seq(Causes)]
    /\ exc.kind # "none" <=> pc = "unwind"
    /\ trail \in Seq(Causes)
    /\ reports \in Seq([name : Names, ok : BOOLEAN, issues : Seq(Causes)])
StackOK ==
    /\ stack \in Seq(Frame)
    /\ pc \in {"run", "borrow", "establish"} => stack # <<>>
PoolOK ==
    /\ pending \in Sessions \cup {NoSession}
    /\ pending # NoSession <=> pc = "establish"
    /\ avail \in Seq(Sessions) /\ closed \in SUBSET Sessions
NetOK ==
    /\ conn \in [Sessions -> {"connecting", "open", "failed", "lost"}]
    /\ owed \in [Sessions -> SUBSET Request]
    /\ inbox \in [Sessions -> Seq(Request)]
    /\ sent \in Nat
    /\ got \in [want : Request, msg : Request]

TypeOK == ControlOK /\ StackOK /\ PoolOK /\ NetOK

Init ==
    /\ pc = "schedule" /\ plan \in Plans /\ next = 1
    /\ stack = <<>> /\ pending = NoSession
    /\ avail = [i \in Sessions |-> i] /\ closed = {}
    /\ conn = [s \in Sessions |-> "connecting"]
    /\ owed = [s \in Sessions |-> {}]
    /\ inbox = [s \in Sessions |-> <<>>]
    /\ sent = 0
    /\ exc = NoException /\ reports = <<>> /\ status = "running"
    /\ trail = <<>> /\ got = [want |-> NoRequest, msg |-> NoRequest]

-----------------------------------------------------------------------------
\* Definitions that start with Slip are what a maintainer could have written by
\* mistake in place of the definition after them; the specification uses none.

Top       == stack[Len(stack)]
StepNow   == StepsOf[Top.body][Top.at]
AtEnd     == pc = "run" /\ Top.at > Len(StepsOf[Top.body])
AtStep(op) == pc = "run" /\ Top.at <= Len(StepsOf[Top.body]) /\ StepNow.op = op

WithTop(f) == [stack EXCEPT ![Len(stack)] = f]
\* The frame's loop goes on to its next step.
Advanced(st) == [st EXCEPT ![Len(st)].at = @ + 1]

\* std::filesystem::path::parent_path.
ParentPath(p) == Front(p)
\* The directory a path names: a trailing slash makes no difference.
DirOf(p) == IF p # <<>> /\ Last(p) = "" THEN Front(p) ELSE p

\* The crawler's directories end in a slash (remove_filename keeps it).
TopLevelBase(name) == Append(FlowDir(name), "")
\* Where a run_flow step of a flow with this base path looks for its subflow.
SubflowBase(base, name) == Append(ParentPath(ParentPath(base)), name)

NewFrame(kind, body, base, left) ==
    [kind |-> kind, body |-> body, base |-> base, at |-> 1,
     link |-> NoSession, req |-> NoRequest, left |-> left]
Enter(kind, body, base, left) ==
    /\ pc' = "run"
    /\ stack' = Append(stack, NewFrame(kind, body, base, left))

\* The link's cleanup is lost, or runs twice.
SlipGiveBackNever(s) == avail' = avail
SlipGiveBackTwice(s) == \/ s = NoSession /\ avail' = avail
                        \/ s # NoSession /\ avail' = avail \o <<s, s>>

\* The session goes to the front of the queue.
SlipGiveBackFirst(s) == \/ s = NoSession /\ avail' = avail
                        \/ s # NoSession /\ avail' = <<s>> \o avail

\* ~ConnectionLink(): the session goes to the back of available_pool_.  The
\* enqueue would wait for room; a null link has nothing to give back.
GiveBack(s) == \/ s = NoSession /\ avail' = avail
               \/ s # NoSession /\ Len(avail) < PoolSize /\ avail' = Append(avail, s)

\* The step is tried again.
SlipThrow(kind, cause) == pc' = "run" /\ UNCHANGED <<exc, trail>>

\* throw: a FlowException carries its cause in its issues, another exception
\* does not get that far.
NonRootKinds == [i \in 1 .. Len(stack) - 1 |-> stack[Len(stack) + 1 - i].kind]
Throw(kind, cause) ==
    /\ pc' = "unwind"
    /\ exc' = [kind |-> kind, issues |-> <<cause>>]
    /\ trail' = <<cause>> \o NonRootKinds

-----------------------------------------------------------------------------
\* Scheduler::run and main.

\* The next flow of the plan gets a runner, which loads its script.
StartFlow ==
    /\ pc = "schedule" /\ next <= Len(plan)
    /\ next' = next + 1
    /\ LET base == TopLevelBase(plan[next])
           body == Disk[DirOf(base)] IN
       \/ /\ body # Malformed
          /\ Enter("flow", body, base, 1)
          /\ UNCHANGED <<exc, trail>>
       \/ /\ body = Malformed
          /\ Throw("other", "yaml")
          /\ UNCHANGED stack
    /\ UNCHANGED <<plan, pending, reports, status, pool, net, got>>

ReportFlow(ok, issues) ==
    reports' = Append(reports, [name |-> plan[next - 1], ok |-> ok, issues |-> issues])

SlipCaught == UNCHANGED exc
Caught == exc' = NoException

\* The scheduler catches a FlowException and goes on with the next flow.
CatchFlow ==
    /\ pc = "unwind" /\ stack = <<>> /\ exc.kind = "flow"
    /\ ReportFlow(FALSE, exc.issues)
    /\ pc' = "schedule" /\ Caught
    /\ UNCHANGED <<plan, next, stack, pending, status, pool, net, ghosts>>

SlipGiveUp == pc' = "schedule" /\ UNCHANGED status
GiveUp == pc' = "shutdown" /\ status' = "failure"

\* Any other exception leaves the scheduler and is caught by main.
CatchOther ==
    /\ pc = "unwind" /\ stack = <<>> /\ exc.kind = "other"
    /\ GiveUp /\ Caught
    /\ UNCHANGED <<plan, next, stack, pending, reports, pool, net, ghosts>>

\* Every flow has been executed: EXIT_SUCCESS, whatever they reported.
Finish ==
    /\ pc = "schedule" /\ next > Len(plan)
    /\ pc' = "shutdown" /\ status' = "success"
    /\ UNCHANGED <<plan, next, stack, pending, exc, reports, pool, net, ghosts>>

\* ~AsyncConnectionPool(): stop() closes what is in the queue, then the io
\* threads, left without work, are joined.
Shutdown ==
    /\ pc = "shutdown"
    /\ pc' = "exit" /\ closed' = ToSet(avail) /\ avail' = <<>>
    /\ UNCHANGED <<plan, next, stack, pending, exc, reports, status, net, ghosts>>

-----------------------------------------------------------------------------
\* The request step: Request::perform, ConnectionManager::request, borrow().

\* The template is rendered and its result parses: the main thread enters borrow().
Render ==
    /\ AtStep("request")
    /\ pc' = "borrow"
    /\ UNCHANGED <<plan, next, stack, pending, exc, reports, status, pool, net, ghosts>>

\* Rendering the template or parsing its result throws, before any connection
\* is borrowed.
RequestThrows ==
    /\ AtStep("request") /\ "template" \in Faults
    /\ Throw("flow", "request")
    /\ UNCHANGED <<plan, next, stack, pending, reports, status, pool, net, got>>

SlipDequeued == UNCHANGED avail
Dequeued == avail' = Tail(avail)

\* borrow(): waits for an available session and takes the oldest.  Nothing else
\* can happen to the thread that waits here.
Borrow ==
    /\ pc = "borrow" /\ avail # <<>>
    /\ pending' = Head(avail) /\ Dequeued
    /\ pc' = "establish"
    /\ UNCHANGED <<plan, next, stack, exc, reports, status, closed, net, ghosts>>

\* Waits for the connection to be there now, not for it to have been there.
SlipEstablished == conn[pending] = "open"
\* is_connected_: set when the handshake is over and never reset.
Established == conn[pending] \in {"open", "lost"}

\* ConnectionLink() waits for the connection, write() sends the request without
\* looking at what becomes of it, and the assignment to connection_link gives
\* the frame's former session back.
Send ==
    /\ pc = "establish" /\ Established
    /\ LET r == [n |-> sent + 1, flow |-> next - 1, stream |-> StepNow.stream] IN
       /\ sent' = sent + 1
       /\ \/ conn[pending] = "open" /\ owed' = [owed EXCEPT ![pending] = @ \cup {r}]
          \/ conn[pending] = "lost" /\ UNCHANGED owed
       /\ stack' = Advanced(WithTop([Top EXCEPT !.link = pending, !.req = r]))
    /\ GiveBack(Top.link)
    /\ pending' = NoSession /\ pc' = "run"
    /\ UNCHANGED <<plan, next, exc, reports, status, closed, conn, inbox, ghosts>>

-----------------------------------------------------------------------------
\* The response step: read_one(), json::parse, Response::validate.

\* "Response can't come before Request step": a logic_error, which no frame catches.
ResponseFirst ==
    /\ AtStep("response") /\ Top.link = NoSession
    /\ Throw("other", "response")
    /\ UNCHANGED <<plan, next, stack, pending, reports, status, pool, net, got>>

SlipConsumed(s) == UNCHANGED inbox
Consumed(s) == inbox' = [inbox EXCEPT ![s] = Tail(@)]

\* The blocking read takes the oldest unread message, whatever caused it.
Receive(s) ==
    /\ AtStep("response") /\ Top.link = s /\ inbox[s] # <<>>
    /\ Consumed(s)
    /\ got' = [want |-> Top.req, msg |-> Head(inbox[s])]
    /\ UNCHANGED <<plan, next, pending, reports, status, pool, conn, owed, sent>>

ResponseValid(s) ==
    /\ Receive(s)
    /\ stack' = Advanced(stack)
    /\ UNCHANGED <<pc, exc, trail>>

\* The expectations do not hold, or their template does not render.
ResponseInvalid(s) ==
    /\ "mismatch" \in Faults
    /\ Receive(s)
    /\ Throw("flow", "response")
    /\ UNCHANGED stack

\* json::parse is called outside validate(), so its exception is not converted.
ResponseNotJson(s) ==
    /\ "notjson" \in Faults
    /\ Receive(s)
    /\ Throw("other", "response")
    /\ UNCHANGED stack

\* The read itself throws when the connection is gone; unread data may be lost.
ReadThrows(s) ==
    /\ AtStep("response") /\ Top.link = s /\ conn[s] = "lost"
    /\ Throw("other", "response")
    /\ UNCHANGED <<plan, next, stack, pending, reports, status, pool, net, got>>

-----------------------------------------------------------------------------
\* The run_flow and block steps, the end of a frame, exceptions.

Loadable(dir) == dir \in DOMAIN Disk /\ Disk[dir] # Malformed

\* A runner for the subflow, with the parent's environment.  A directory that
\* is not there fails an assert, or throws in a build without asserts.
RunFlow ==
    /\ AtStep("run_flow")
    /\ LET base == SubflowBase(Top.base, StepNow.name)
           dir  == DirOf(base) IN
       \/ /\ Loadable(dir)
          /\ Enter("subflow", Disk[dir], base, 1)
          /\ UNCHANGED <<exc, trail, status>>
       \/ /\ ~Loadable(dir)
          /\ Throw("other", "yaml")
          /\ UNCHANGED <<stack, status>>
       \/ /\ dir \notin DOMAIN Disk
          /\ pc' = "aborted" /\ status' = "aborted"
          /\ UNCHANGED <<stack, exc, trail>>
    /\ UNCHANGED <<plan, next, pending, reports, pool, net, got>>

\* What repeat_ holds: the script's number, or an uninitialised integer.
Repeats(step) == IF step.repeat = Absent THEN RepeatGarbage ELSE {step.repeat}

Block ==
    /\ AtStep("block")
    /\ \E n \in Repeats(StepNow) :
          \/ n = 0 /\ stack' = Advanced(stack) /\ UNCHANGED pc
          \/ n > 0 /\ Enter("block", StepNow.body, Top.base, n)
    /\ UNCHANGED <<plan, next, pending, exc, reports, status, pool, net, ghosts>>

\* run() returns: its connection_link is released and its caller goes on.
EndOfSteps ==
    /\ AtEnd
    /\ GiveBack(Top.link)
    /\ \/ /\ Top.kind = "flow"
          /\ ReportFlow(TRUE, <<>>)
          /\ pc' = "schedule" /\ stack' = Front(stack)
       \/ /\ Top.kind # "flow" /\ Top.left = 1
          /\ stack' = Advanced(Front(stack))
          /\ UNCHANGED <<pc, reports>>
       \/ /\ Top.kind = "block" /\ Top.left > 1
          /\ stack' = WithTop(NewFrame("block", Top.body, Top.base, Top.left - 1))
          /\ UNCHANGED <<pc, reports>>
    /\ UNCHANGED <<plan, next, pending, exc, status, closed, net, ghosts>>

SlipWithIssue(issues, kind) == <<kind>> \o issues
WithIssue(issues, kind) == Append(issues, kind)

\* An exception leaves run(), which releases the link; RunFlow::run and
\* RepeatBlock::run add an issue of their own to a FlowException, last.
UnwindFrame ==
    /\ pc = "unwind" /\ stack # <<>>
    /\ GiveBack(Top.link)
    /\ stack' = Front(stack)
    /\ exc' = IF exc.kind = "flow" /\ Top.kind # "flow"
              THEN [exc EXCEPT !.issues = WithIssue(@, Top.kind)] ELSE exc
    /\ UNCHANGED <<pc, plan, next, pending, reports, status, closed, net, ghosts>>

-----------------------------------------------------------------------------
\* The io threads and the server.

Alive == pc \notin {"exit", "aborted"}
Becomes(s, from, to) == /\ Alive /\ conn[s] = from
                        /\ conn' = [conn EXCEPT ![s] = to]
                        /\ UNCHANGED <<main, pool, owed, inbox, sent, ghosts>>

\* The chain on_resolve, on_connect, on_handshake runs to its end, ...
Connects(s) == Becomes(s, "connecting", "open")
\* ... or stops in fail(), which does nothing: is_connected_ stays false for ever.
ConnectFails(s) == "refuse" \in Faults /\ Becomes(s, "connecting", "failed")
\* The connection breaks; nothing tells the session and nothing reconnects it.
Loses(s) == "drop" \in Faults /\ Becomes(s, "open", "lost")

\* The server says something about a request: the reply, and after it, when the
\* request subscribed to a stream, updates for as long as the connection lives.
Answers(s) ==
    /\ Alive /\ conn[s] = "open"
    /\ \E r \in owed[s] :
          /\ r.stream => Len(inbox[s]) < MaxUnread
          /\ inbox' = [inbox EXCEPT ![s] = Append(@, r)]
          /\ owed' = IF r.stream THEN owed ELSE [owed EXCEPT ![s] = @ \ {r}]
    /\ UNCHANGED <<main, pool, conn, sent, ghosts>>

-----------------------------------------------------------------------------
Main == \/ StartFlow \/ CatchFlow \/ CatchOther \/ Finish \/ Shutdown
        \/ Render \/ RequestThrows \/ Borrow \/ Send
        \/ ResponseFirst
        \/ \E s \in Sessions : \/ ResponseValid(s) \/ ResponseInvalid(s)
                               \/ ResponseNotJson(s) \/ ReadThrows(s)
        \/ RunFlow \/ Block \/ EndOfSteps \/ UnwindFrame

Environment == \E s \in Sessions : Connects(s) \/ ConnectFails(s) \/ Loses(s) \/ Answers(s)

\* The process is over.
Ended == ~Alive /\ UNCHANGED vars

Next == Main \/ Environment \/ Ended

\* The main thread runs whenever it can.  An attempt to connect ends one way or
\* the other (the code gives it 30 seconds).  The server answers.
Fairness == /\ WF_vars(Main)
            /\ \A s \in Sessions : /\ WF_vars(Connects(s) \/ ConnectFails(s))
                                   /\ WF_vars(Answers(s))

Spec == Init /\ [][Next]_vars /\ Fairness

-----------------------------------------------------------------------------
\* Every session is at exactly one place: in the queue, dequeued by a borrow()
\* in progress, held by one frame's connection_link, or closed.  Whatever mix
\* of returns, exceptions and re-assignments of connection_link a run goes
\* through, none is leaked, and none is lent to two frames at once.
Linked(s) == \E i \in DOMAIN stack : stack[i].link = s
SessionsConserved ==
    /\ IsInjective(avail)
    /\ \A i, j \in DOMAIN stack :
          stack[i].link = stack[j].link /\ stack[i].link # NoSession => i = j
    /\ \A s \in ToSet(avail) : ~Linked(s) /\ s # pending
    /\ \A i \in DOMAIN stack : stack[i].link # NoSession => stack[i].link # pending
    /\ pc # "exit" => \A s \in Sessions : s \in ToSet(avail) \/ Linked(s) \/ s = pending

\* ~ConnectionLink() calls enqueue() on a bounded queue, from a destructor, on
\* the only thread that ever takes sessions out: it must always find room.
ReturnNeverBlocks ==
    (\E i \in DOMAIN stack : stack[i].link # NoSession) => Len(avail) < PoolSize

\* borrow() waits for a session, and only its own thread could give one back.
HungOnBorrow == pc = "borrow" /\ avail = <<>>

\* borrow() waits for a session that only its own thread could give back when
\* the frames on the call stack hold them all.  That takes a nesting at least as
\* deep as the pool is large: shallower flows never wait for a session.
StarvesOnlyWhenNested == HungOnBorrow => Len(stack) >= PoolSize

\* "round robin ws on each new request" (runner.hpp:71): a request never goes
\* out on a connection the frame itself or one below it in the stack is using.
FreshConnection ==
    [][sent' # sent => \A i \in DOMAIN stack : stack[i].link # stack'[Len(stack)].link]_vars

\* A session is in nobody else's hands while a frame uses it: no response step
\* takes away a message that a frame below it in the stack still waits for.
NoReplyStolen ==
    [][got' # got => \A i \in DOMAIN stack : stack[i].req = got'.msg => i = Len(stack)]_vars

\* A response step never reads what a later request than its own frame's caused:
\* neither the frames inside a flow nor the flows after it write on a session that
\* it still reads from.  What is read in place of the reply is older than it.
NothingFromLater == got.msg.n <= got.want.n

\* In scripts that follow each request with its response, each response step
\* reads the reply to its own frame's request, however the flows before it ended.
OwnReply == got.msg = got.want

\* What makes such scripts of the bodies in B: a response step comes right after
\* each request, none of them subscribes to a stream, and neither the plans nor
\* the blocks and run_flow steps lead out of B.
MayLeadTo(name, dir) == name # "" => dir # <<>> /\ Last(dir) = name
Followed(B) ==
    /\ \A p \in Plans : \A i \in DOMAIN p : Disk[FlowDir(p[i])] \in B \cup {Malformed}
    /\ \A b \in B : \A i \in DOMAIN StepsOf[b] :
          LET step == StepsOf[b][i] IN
          /\ step.op = "request" =>
                /\ ~step.stream
                /\ i + 1 \in DOMAIN StepsOf[b] /\ StepsOf[b][i + 1].op = "response"
          /\ step.op = "block" => step.body \in B
          /\ step.op = "run_flow" => \A dir \in DOMAIN Disk :
                MayLeadTo(step.name, dir) => Disk[dir] \in B \cup {Malformed}

\* In pairs: there are no other response steps.
Paired(B) ==
    /\ Followed(B)
    /\ \A b \in B : \A i \in DOMAIN StepsOf[b] :
          StepsOf[b][i].op = "response" => i > 1 /\ StepsOf[b][i - 1].op = "request"

\* A FailureEvent lists the cause of the failure first and then the blocks and
\* subflows it happened in, innermost first, each exactly once.
FailureTellsTheTrail ==
    pc = "schedule" /\ reports # <<>> => Last(reports).ok \/ Last(reports).issues = trail

\* The destructor of the pool closes every session, also when the run was ended
\* by an exception with links on the call stack.
ExitClosesAll == pc = "exit" => closed = Sessions

\* The runner keeps the promise of FlowSchedule.
Schedule == INSTANCE FlowSchedule WITH
    reports <- [i \in DOMAIN reports |-> [name |-> reports[i].name, ok |-> reports[i].ok]]
KeepsSchedule == Schedule!Spec

\* The runner and its links use the sessions as Lending allows, which is what
\* ConnectionPool shows of the handlers.
OnLoan == {stack[i].link : i \in DOMAIN stack} \ {NoSession}
Lender == INSTANCE Lending WITH
    free   <- avail,
    taken  <- pending,
    lent   <- OnLoan,
    up     <- {s \in Sessions : conn[s] \in {"open", "lost"}}
ImplementsLending == Lender!Spec

\* What can keep the main thread waiting for ever: a session that failed to
\* connect, a pool whose sessions its own frames hold, a read of a message
\* nobody is going to send.
HungOnConnect == pc = "establish" /\ conn[pending] = "failed"
HungOnRead    == /\ AtStep("response") /\ Top.link # NoSession
                 /\ inbox[Top.link] = <<>> /\ owed[Top.link] = {}

\* In scripts of pairs, the blocking read of a response step never waits for a
\* message that nobody is going to send: the reply is owed or there, or else the
\* connection is lost and the read throws.
ReadsAreAnswered == HungOnRead => conn[Top.link] = "lost"

\* Every run ends unless it hangs for one of these three reasons.
EndsOrHangs == <>[](~Alive \/ HungOnConnect \/ HungOnBorrow \/ HungOnRead)

\* Scripts that pair requests and responses and nest less deep than the pool is
\* large end, whatever they contain and whichever connection breaks, when every
\* session connects: no end of a flow loses a session that a later one waits for.
Ends == <>~Alive

-----------------------------------------------------------------------------
\* What the documentation says and the code does not do; each is checked by a
\* run that finds the counterexample.

\* README.md:66 "Name of the flow to run assuming we search from the `flows` dir".
SubflowInFlowsDir ==
    AtStep("run_flow") =>
        SubflowBase(Top.base, StepNow.name) = FlowDir(StepNow.name)

\* README.md:72 "how many times to repeat the steps in this block. Defaults to 1".
RepeatDefaultsToOne ==
    [][AtStep("block") /\ stack' # stack /\ StepNow.repeat = Absent =>
          Len(stack') > Len(stack) /\ Last(stack').left = 1]_vars
=============================================================================
