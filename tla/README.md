# cliot in TLA+

cliot runs scripted conversations with a Clio (XRP ledger) server over
WebSockets: it finds the flows of a data directory, executes their steps one
after another, and reports which flows met their expectations. These modules
model that program (`src/src/`), TLC checks them on small instances, and TLAPS
proves the central properties for every value of the constants.

Paths below are relative to the repository's `src/` directory.

## The system

| Component | Source | State it keeps | Operations |
|---|---|---|---|
| main, Scheduler | `main.cpp`, `scheduler.hpp` | the ordered map of flows, the exit status | run each flow, report success or failure, stop at a foreign exception |
| Crawler | `crawler.hpp` | set of paths, map from name to directory | walk `flows/`, skip hidden entries, filter by name |
| Flow loading | `flow/flow.hpp`, `flow/impl/`, `flow/descriptors.hpp` | a vector of steps | load `script.yaml` or a block's steps, resolve the files and directories they name |
| FlowRunner | `runner.hpp` | name, path, and per run the environment, the store, the current `connection_link` | run the steps in order; register the template functions |
| Steps | `flow/step/*.hpp` | path, validator, or nested steps | `Request::perform`, `Response::validate`, `RunFlow::run`, `RepeatBlock::run` |
| Environment | `runner.hpp`, `web/fetcher.cpp` | a JSON store per top-level flow | variables of templates; `store`, `storeAndReturn`, `load`, `fetch`, `fetch_json`, `combine`, `equal`, `assert` |
| Validator | `validation/validator.cpp` | verdict, list of issues | `validate` a response against expectations |
| Connection pool | `web/async_connection_pool.*`, `web/connection_manager.hpp` | four sessions, four io threads, the queue of available sessions | `borrow`, give back (destructor of the link), `stop` |
| AsyncQueue | `util/async_queue.hpp` | a deque, a capacity, a stop flag, one mutex, one condition variable | blocking `enqueue` and `dequeue`, `stop` |
| WebSocketSession | `web/web_socket_session.*` | the stream, `is_connected_` | connect chain, `ensure_connection_established`, `write`, `read_one`, `close` |
| Fetcher | `web/fetcher.cpp`, `util/parse_uri.cpp` | none | a blocking HTTPS request |
| Reporting | `reporting/*` | a renderer | print events |

How they interact. The main thread executes everything above the pool as plain
nested calls: Scheduler, FlowRunner, a step, for a subflow or a block another
FlowRunner, and so on. A request step borrows a session from the pool's
AsyncQueue, waits until it is connected, writes, and leaves the link in the
frame's `connection_link`; the response steps of this frame read from it with a
blocking read. The link's destructor puts the session back: when the next
request replaces the link, when the frame returns, or when an exception unwinds
it. The io threads run the connect chains and the asynchronous writes of the
sessions. Subflows and blocks share the environment of their parent by
reference. Failures are `FlowException`s, to which each subflow and block adds
an issue before the scheduler reports them; any other exception ends the run.

What is hard about it:

- **Concurrency.** The queue's wait, notify and stop in every interleaving; the
  io threads against a main thread that waits on what they set.
- **Resources.** Four sessions for frames of any depth, given back on many
  different paths, into a bounded queue, from a destructor.
- **Failure.** Connects that fail, connections that are lost and come back from
  the pool, servers that send updates nobody reads, replies that are not JSON,
  templates that throw, scripts that cannot be loaded.
- **Ordering.** Which reply belongs to which request when sessions are reused;
  the issues of a failure that unwinds several frames.
- **State that outlives its use.** Unread messages, `is_connected_`, variables,
  the validator of a step that is executed repeatedly.
- **State that does not outlive its use.** Handlers hold their session by a raw
  `this`, and a write holds its text by reference.

What makes each component correct:

- AsyncQueue: no lost wakeup, capacity respected, FIFO, stop releases everyone.
- Pool: sessions are lent connected, to one link at a time, and oldest first; no
  wakeup is lost between a handshake's handler and the borrower; no handler uses
  a session that was destroyed; what is sent is what was rendered; the destructor
  comes back, and leaves nothing behind that could still run.
- FlowRunner: each session is at exactly one place, giving one back never waits, a
  run ends or hangs only for known reasons, no step takes the reply of another
  frame, each response step of paired scripts reads its own reply.
- Crawler: which flows run, and whether any does, depends on the directory and the
  filter alone, not on the order of a walk; what runs was announced.
- Scheduler: flows run in order, one report each, success only at the end.
- Steps: a failure lists its cause and then the frames it happened in.
- Environment: a read yields what this flow wrote last, and nothing of others.
- Validator: the issues are exactly the positions that do not match.

## Modules

| Module | Models |
|---|---|
| `BoundedFifo` | what a bounded blocking queue promises: put, take, take nothing after stop, stop |
| `AsyncQueue` | `async_queue.hpp` with its mutex, condition variable and callers; implements `BoundedFifo` |
| `Lending` | what the pool promises its client: take, lend, give back, close |
| `ConnectionPool` | pool and sessions handler by handler: main thread, workers, network; implements `Lending` |
| `FlowSchedule` | what a run promises: one report per flow, in order, then success; or an early end |
| `FlowRunner` | scheduler, runner, steps, flow loading, links and the sessions as a borrower sees them; implements `FlowSchedule` and `Lending` |
| `Crawler`, `MCCrawler` | the walk of `flows/` and the filter; directories for TLC |
| `Environment`, `MCEnvironment` | the store of a flow and the references to it |
| `Validator`, `MCValidator` | `validator.cpp`; documents for TLC |
| `MCFlowRunner` | the scripts and plans TLC runs |
| `MCFlowRunnerPaired` | the same, with the assumption that the scripts of the plans are pairs |
| `AsyncQueueProofs`, `ConnectionPoolProofs`, `CrawlerProofs`, `EnvironmentProofs`, `ValidatorProofs` | proofs about the module of that name |
| `FlowRunnerProofs` | types and the shape of the call stack of `FlowRunner` |
| `FlowRunnerPoolProofs` | where its sessions are, and that it implements `Lending` |
| `FlowRunnerReplyProofs` | whose replies its steps read and what they wait for, what a failure tells, and that it implements `FlowSchedule` |

How they compose. `Lending` is the seam between the threads and the scripts:
`ConnectionPool` implements it with everything that can happen inside a session,
and `FlowRunner` implements it with everything that can happen to the holder of
one. The state they share through it (the queue, the session taken, the links,
which sessions have connected, which were closed) is what a borrower can observe
of the pool, so `FlowRunner` need not repeat the handlers. `AsyncQueue` is, in the
same way, shown to be a `BoundedFifo`, and the other two take the queue as a
sequence. `Crawler` computes the flows whose orders `FlowRunner` takes as `Plans`.

Some definitions start with `Slip`. Each is a mistake a maintainer could make in
place of the definition after it; no specification uses them. Substituting one
for its neighbour must break the property it is paired with in `PROJECT.json`,
which shows that the property depends on that code.

### AsyncQueue

`q` and `stopRequested` are the members; the mutex is implicit in that an action is
one critical section; `pc` says which operation a thread is in, `asleep` holds
the threads blocked on the condition variable, and `deleted` what the deleter
was applied to. `enqueue` notifies inside its critical section, `dequeue` after it
(`async_queue.hpp:57`), so the latter is an action of its own
(`DequeueNotifies`). `SpuriousWakeup` is the condition variable's right to wake
anyone. `HasRoom` and `HasAnswer` are the predicates the waits re-evaluate.

### ConnectionPool

The actors are the main thread, `NumWorkers` threads in `ctx_.run()`, and the
operations of the network. `pc` is what the main thread does: making the
sessions, idle, inside `borrow()` (`establish`, `asleep`), writing with the link
it has (`linked`, `perform`), `stopping`, `joining`, `exit`. `work` is the guard
that keeps the workers in the context, `left` how many of them have returned.

Each session has its connect chain: `op` is the operation under way, `ended` how
it ended before its handler ran, `connected` is `is_connected_`. A handler is one
action (`OnResolve`, `OnConnect`, `OnHandshake`, `OnWrite`, `OnClose`); only
`on_handshake` is two, because it sets `is_connected_` (`web_socket_session.cpp:98`)
and then notifies, and the main thread may be between looking and sleeping.
`fail()` does nothing to the session, so a chain that failed is just over.

`writes` are the asynchronous writes of a session whose handlers have not run.
What is known of a write is how many frames of its text are still to be read out
of it, and whether those read so far held what was rendered: the text exists until
`Request::perform` returns, and a frame read later may hold anything. The library
reads the first frame before `async_write` returns, unless another write has the
stream (`UnreadAtFirst`, an assumption about the library). `gone` are
the sessions `stop()` has destroyed. A handler that uses a member of one of these
puts it into `touched`, after which the process may die (`Crash`). `early`, a
history variable like `touched`, are the sessions that were destroyed before
their chain was over.

Beast's own state, and what its use from two threads without a strand does to
it, is not in the module: the main thread's calls count as what their
documentation says of one caller.

### Lending

The pool as a specification of five actions. `Lend(old)` is the assignment of a
new link to a variable that may hold another: the new session is lent before the
old one is available again (`runner.hpp:71`). In `ConnectionPool`, whose client
may hold any number of links and drop each at any time, `old` is always none. What
the client reads does not show in the pool and is left to `FlowRunner`.

### FlowRunner

`stack` is the main thread's call stack, one frame per active
`FlowRunner::run(env, store, flow)`, with the frame's position in its steps, its
`connection_link`, and for a block the iterations left. `pc` says what the
thread is doing: taking the next flow (`schedule`), executing steps (`run`),
waiting for a session in `borrow()` (`borrow`), waiting for its connection in the
link's constructor (`establish`), unwinding an exception (`unwind`), destroying the pool (`shutdown`). `avail` is the pool's
queue, `conn`, `inbox`, `owed` are the sessions' connection states, the messages
that arrived, and the requests the server will still say something about. Each
handler is one action: `Render`, `Borrow` and `Send` (a request step, with the two
waits between them), `ResponseValid`, `ResponseInvalid`, `ResponseNotJson`,
`ResponseFirst`, `ReadThrows` (a response step), `RunFlow`, `Block`,
`EndOfSteps`, `UnwindFrame`, and the scheduler's `StartFlow`, `CatchFlow`,
`CatchOther`, `Finish`, `Shutdown`. The network and the server are `Connects`,
`ConnectFails`, `Loses`, `Answers`.

`Request::perform` renders the template and parses the result before it borrows
(`request.hpp:37-41`): it is either `Render` or `RequestThrows`, and a thread that
has got to `borrow` can only wait. Without this state between them a thread blocked
in `borrow()` could still throw, and no liveness property would see it hang.

Paths are sequences of components, because the directory of a subflow depends on
whether a path ends in a slash (`flow.hpp:76`, `crawler.hpp:52`). `trail` and
`got` are history variables: the frames a failure went through, the last
message read with the request it was read for.

The queue is a sequence here. That is enough because the main thread is the only
one that dequeues, and the only one that enqueues once the constructor is done;
`AsyncQueue` shows that the queue behaves as such a sequence for any callers.

An `env.json` of a top-level flow that does not parse throws before the script is
loaded and ends the run: in this module it is a script that is `Malformed`.

### Validator

The pending calls of the recursive `do_validate` are the sequence `todo`, and an
action is one call. A document is a record with a kind, so that numbers that are
equal but of different kinds, empty containers and the filter strings are told
apart. `Mismatch` says, position by position and without any traversal, where a
response is wrong; it is the reference the traversal is checked against. What
`atoi` makes of `$array=...` is the constant `ArrayFilters`. The texts of the
issues are left out, and the path of an issue is the sequence of its keys.

`At` (what is at a path of a document) and `InOrder` (the order of `items()`,
which is that of a `std::map`) are recursive functions, so that they can be proved
about. `Depth` bounds how deep the expectations are, as `IsDocument` says in the
module's assumption: a document of the code is finite, and the theorems hold for
every `Depth`.

### Environment

A reference to a store is an index into `heap`. `stack` holds, per active run,
the reference its steps were made with (`default_flow_factory.hpp`, through which
`{{ x }}` is looked up), `captured` the one the registered lambdas hold
(`runner.hpp:101`, through which `store`, `load` and `fetch` work). A template is
any sequence of uses of these. Values are tokens with their provenance.
`latest` is a history variable: what this flow gave each variable last.
`storeAndReturn` is `StoreMade` or `StoreCopy`; what `combine` and `equal`
compute is an expression's new value; a failing `assert` is `StepFails`. An
`env.json` is taken to be an object without nulls, a message not to be null. Only
that of a top-level flow is loaded (`runner.hpp:44`); `README.md:78` could be read
as promising it for a subflow too, which runs with its parent's store.

### Crawler

`disk` says of each name what the entry of `flows/` is: nothing, a plain file, or
a directory with some of the files the code tells apart (a `script.yaml`, a
directory of that name, other files, hidden ones). `Enter` and `Visit` are the
bodies of the two loops over a directory, on any entry not yet handed out;
`Select` is the loop over the paths found, whose order an ordered map hides. The
iterator of an entry that is no directory throws, which ends the run before it
has begun (`threw`).

## What the runs show

| Run | Configuration | Result |
|---|---|---|
| `queue` | `AsyncQueue.cfg` | holds: capacity, no lost wakeup, quiet after stop, FIFO refinement; everybody asleep is released |
| `pool` | `ConnectionPool.cfg` | holds: no handler uses a destroyed session whose chain was over; a clean exit; the pool implements `Lending`; a borrower goes on, the destructor does not wait for ever |
| `paired_scripts` | `FlowRunnerPaired.cfg` | holds: own reply, no read of a message nobody sends, every run ends |
| `mixed_scripts` | `FlowRunnerMixed.cfg` | holds: sessions conserved, giving back never waits, starvation only by nesting, every session closed at exit, full trail of a failure, fresh connection per request, nothing read that a later request caused, no reply stolen from another frame, the schedule, `Lending` once more, and a run ends or hangs for one of three reasons |
| `crawler` | `Crawler.cfg` | holds: the outcome does not depend on the order of the walk; what runs was announced |
| `validator` | `Validator.cfg` | holds: issues are exactly the mismatches, each once; the verdict agrees; a response that passes has what is expected, at every depth |
| `environment` | `Environment.cfg` | holds: each read yields what this flow wrote last |
| `overwritten_text` | `ConnectionPoolText.cfg` | violated: the server receives something other than the rendered request |
| `nested_subflow` | `FlowRunnerNested.cfg` | violated: the subflow of a subflow is looked for in the wrong directory |
| `default_repeat` | `FlowRunnerDefault.cfg` | violated: a block without `repeat` runs an arbitrary number of times |
| `empty_expectations` | `ValidatorEmpty.cfg` | violated: an empty array as expectation matches any value |
| `failed_fetch` | `EnvironmentFetch.cfg` | violated: the text of a fetch's exception is stored as data |

The last five are disagreements between the documentation and the code;
`PROJECT.json` quotes both sides of each under "findings". Each of these runs
checks only that statement.

The difference between `paired_scripts` and `mixed_scripts` matters. In the
former every request is followed by its response within the same frame, nesting
stays just below the pool size, and every session connects; then every response step
reads its own reply whatever breaks, never waits for a message nobody sends
(`ReadsAreAnswered`), and every run ends. The last depends on every way out of a
frame giving its session back: with one session lost the frames two deep of `holds`
would wait in `borrow()` for ever. The latter has scripts
without these restrictions (unread replies, subscriptions, a response first,
blocks nested as deep as the pool, missing subflows) and connects that fail; then
a response step may read an update of an earlier flow's subscription as its own
reply, but never the reply a frame below it waits for (`NoReplyStolen`), nor what
any later request caused, be it in a subflow, a block or another flow
(`NothingFromLater`); and a run may hang, and `EndsOrHangs` lists all the ways: a session that never
connected (`fail()` leaves `is_connected_` false and
`web_socket_session.cpp:42` waits without a timeout), a pool whose sessions are
all held by the waiting thread's own frames, a read of a message nobody will send.

`overwritten_text` needs a text that is longer than one frame, or one written to a
session that was given back while it was still writing: it is read after
`Request::perform` has destroyed it (`web_socket_session.cpp:47`).

`UsesOnlyLive` does not say that no handler ever uses a destroyed session: the code
gets that wrong, and no document promises it. It says when: a pool destroyed with
a chain under way (a run that needed fewer sessions than four and was faster than
their handshakes) can run a handler on a destroyed session; once every chain has
ended it cannot, however many writes and closes are pending. `DestructorReturns`
counts a process that dies this way as one that does not wait.

### Bounds

- `queue`: three threads on a queue of two places, and two elements, so that an
  order can be wrong, producers and consumers both sleep, and a stop finds callers
  in every phase.
- `pool`: two sessions and two workers, so that handlers of two sessions overlap,
  a chain is under way while another session is in use, and both workers or only
  one is busy; `MaxWrites = 2` writes of one session under way, the second of
  which waits for the stream. The code would start a third one where the model's
  main thread waits; no property depends on it. Its texts are short, since what
  happens to a long one is the question of `overwritten_text`, for which one
  session and one worker do.
- `crawler`: four entries, one of them hidden, each absent, a plain file, or a
  directory with one of four contents, and filters that match all, some and
  nothing. Each decision is about one entry; a fourth gives walks in which entries
  come before and after the one that throws.
- FlowRunner: a pool of 3 sessions instead of 4. The code never looks at
  the number except as capacity; scripts nested two deep (`holds`) are just below
  it, and scripts nested as deep as the pool (`deep3`) make every session busy; the
  theorems cover every size.
  `MaxUnread = 2` updates in a session that nobody reads are one more than is
  needed for a later flow to read a stale one. `RepeatGarbage = {0, 1, 3}` are
  the outcomes of the uninitialised counter that can be told apart: none, the
  documented one, too many. Plans have two or three flows: one to disturb, one
  to be disturbed.
- `validator`: documents of two levels with two keys; every filter and kind of
  scalar against every other on one level, objects of different shapes on two.
- `environment`: two flows, one with an `env.json`, two variables and `$res`,
  frames three deep, three values made. A read is wrong as soon as two
  references or two flows disagree, for which one variable and two values do.

### Fairness

- The main thread runs whenever it can (weak fairness of `Main`): it is a thread
  of a preemptive system and nothing ever blocks it but the guards modelled.
- An attempt to connect ends, well or not: resolving ends, the TCP connect is
  given 30 seconds (`web_socket_session.cpp:71`), and the handshake has the
  timeout the WebSocket library suggests (`:82`).
- The server answers the requests it got while the connection is up. This is an
  assumption about the server; without it a blocking read need not return, which
  the third reason of `EndsOrHangs` would then have to include.
- No fairness is assumed for losing connections or for failing to connect.
- In the pool, the main thread and the workers run whenever they can, and so does
  each session's pending handler; an operation of a connect chain ends, as above,
  and a write on a connection that is gone or broken fails. A write the server
  never takes may stay under way for ever, and no connection has to break.
- In the queue, a thread inside a call that is not asleep goes on in the end (weak
  fairness of its steps); calling, stopping and spurious wakeups may never happen.
- `Validator`: a call of `validate()` runs to its end. `Environment` and
  `Crawler`: none, their properties are safety properties.

## What is proved

All theorems are of the form `Spec => []P` or `Spec => P`, for every value of the
constants that meets the named assumption of the module (`FlowAssumption` and so
on). They do not depend on fairness.

- **AsyncQueue.** Type correctness, `CapacityRespected`, `NoLostWakeup`,
  `StoppedIsQuiet`, and the refinement `ImplementsFifo`. The invariant is the
  conjunction of these: `NoLostWakeup` says that a sleeper whose predicate is true
  is about to be notified, which is what an action that makes a predicate true
  must re-establish; quietness after a stop needs that stop notifies everyone.
- **FlowRunner, `TypeCorrect`.** `TypeOK` is not inductive alone. `Shape` adds
  which frames a control state has: the bottom frame and only it is a top-level
  flow, there are no frames between flows, and in `borrow` and `establish` the top
  frame is at a request step. With it the frames the actions pop and the steps they look at
  are there.
- **FlowRunner, `ConservedAlways`.** `SessionsConserved` is inductive together
  with `TypeOK /\ Shape`: each action moves at most one session from one place to
  another. From it follow, as plain consequences in each state, `ReturnNeverBlocks`
  (a queue without repetitions that misses a linked session is shorter than the
  number of sessions) and `StarvesOnlyWhenNested` (the sessions that are not in
  the queue are linked by different frames, so there are at least as many
  frames); and `ExitClosesAll` and, as an action property, `FreshConnection`. The
  counting rests on the library's theorems about finite sets and bijections.
- **FlowRunner, `RepliesKept`.** `NoReplyStolen` speaks of one step; the invariant
  behind it is `Routed`: whatever a frame's request caused, and the server still
  owes or has sent, is on the session that frame is linked to. Since no two
  frames are linked to one session (`SessionsConserved`), a read finds only what
  belongs to the reading frame or to a frame that has ended. Requests are numbered
  up to `sent`, so that a new one has nothing in any session.
- **FlowRunner, `NothingFromLaterAlways`.** The invariant `Latest`: what the server
  owes or has sent on the session of a frame was caused by that frame's request or
  by an earlier one. A request goes out on a session no other frame is linked to
  (`SessionsConserved`), with a number above all others (`Routed`), and a frame
  that stays keeps its session. It needs no hypothesis about the scripts.
- **FlowRunner, `OwnReplyAlways`.** Of scripts in a set of bodies `B` with
  `Followed(B)`: each request is followed by a response step, none subscribes, and
  plans, blocks and subflows do not lead out of `B`. The hypothesis is about the
  constants only, and TLC evaluates it for the scripts of `paired_scripts`
  (`MCFlowRunnerPaired`). The first part of the invariant says that the frames of
  the stack are of bodies in `B`; the second (`OneAtATime`) that at most one message
  is under way, the reply to the request of the top frame, which is at its
  response step. An exception after which the scheduler goes on with the next flow is thrown
  before the request is sent or after its reply was read; one that leaves the
  reply unread ends the run (`OverWith`).
  Without the response steps, `RepliesKept` and `NothingFromLaterAlways` are what
  remains true.
- **FlowRunner, `ReadsAlways`.** Of scripts with `Paired(B)`: moreover a response
  step comes only after a request. Then a frame that is at a response step has a
  link, and the reply is owed or there unless the connection is lost
  (`Expecting`). A frame comes back to a step after a subflow or a block, which is
  no request, so the step it goes on with is no response (`CallsBelow`).
- **FlowRunner, `TrailAlways`.** `Trailing`: while an exception unwinds, the issues
  it has collected, followed by those of the blocks and subflows still on the
  stack, are the trail of the failure. Each `UnwindFrame` moves one entry from the
  second part to the first.
- **FlowRunner, `ScheduleKept`.** Each step maps to a step of `FlowSchedule` or to
  a stutter. The invariant `Counted` relates `next` to the number of reports: one
  more between flows, two more while a flow is executed.
- **FlowRunner, `LendingKept`.** The sessions lent are the links of all frames. That
  a step changes them by one session is again `SessionsConserved`; and the pool is
  closed only at exit (`Open`).
- **ConnectionPool.** `TypeCorrect`; `UsesAlways`, from the fact that sessions are
  destroyed only at the end and that a chain, once over, stays over;
  `ExitAlways`, whose invariant follows the loans from the constructor on (what is
  in the queue, in hand and linked are all the sessions, each once) and shows that
  no operation starts after the last worker has found the context out of work;
  `LendingKept`, with the invariant that a connected session is at the end of its
  chain, so that `is_connected_` never goes back. They
  hold for any number of sessions and workers, with up to `MaxWrites` writes.
- **Crawler.** `TypeCorrect`, `OutcomeAlways`, `AnnouncedAlways`. The invariant says
  of each entry that it is still to come or was dealt with, and that the paths
  found are exactly those of the entries dealt with.
- **Environment, `ReadsAlways`.** Two facts make `ReadsLatest` inductive: every
  reference in use leads to one store (`OneStore`), and this store holds what each
  variable was given last (`Agree`).
- **Validator.** `TypeCorrect`, `IssuesAlways`, `VerdictAlways`, `SpecifiedAlways`.
  The invariant says that a call of `do_validate` that is still to be made has the
  values at its path, that no two such calls are at paths one of which begins with
  the other, and that every wrong position either has its one issue or is at or
  below the path of a call to come. A step settles the position it looks at and
  hands those below it to its members; when no call is left, the issues are the
  wrong positions. `SpecifiedAlways` follows by induction along a path: when no
  position is wrong, the response has a value wherever its parent position has
  one. The prover cannot instantiate the library's induction theorems, whose
  parameter is a predicate; the lemma `Induction` is about a set of numbers
  instead and follows from the minimum of a well-founded relation. With it the
  equations of the recursive functions `At` and `InOrder` are proved.

Only model-checked are the liveness properties (`EndsOrHangs`, `Ends`,
`StopReleasesEveryone`, `NobodyOversleeps`, `BorrowerProceeds`,
`DestructorReturns`): liveness under fairness is beyond the prover. Every invariant
and every action property of a passing run, and each of the refinements, is a
theorem.

## What is not modelled

- The HTTP exchange of the fetcher, the TCP and WebSocket protocols, YAML and JSON
  syntax, inja's template language: libraries. They appear as outcomes. How long a
  fetch takes does not: it has no timeout (`web/fetcher.cpp:54`), and the main
  thread waits for it.
- What happens inside Beast when the main thread closes or reads a stream whose
  handlers run on a worker (`web_socket_session.cpp:54`): its operations are
  modelled, not its state.
- Number conversion in a `$array=` filter (`validator.cpp:40`): it is an input.
- A `borrow()` from a stopped queue throws, but the one client stops the pool only
  by destroying it, so this does not happen; `AsyncQueue` has it.
- Reporting: it prints what it is given. Utilities and concepts: types.
- Wording of messages, the time stamps of events, command line parsing.

## Plan

Done: the modules and theorems above. Left:

1. The state properties behind the liveness ones, as far as they are not stated
   yet: that a run that has stopped stands at one of the waits `EndsOrHangs` lists.
2. The decomposition of a URI (`util/parse_uri.cpp`), if a document comes to say
   which URIs a fetch accepts.
