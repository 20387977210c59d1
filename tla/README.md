# A verification development of async-durable-execution

TLA+ models of the library under `src/async_durable_execution`, and of the
handlers of its conformance suite and examples, checked with TLC on small
instances, with TLAPS proofs of properties for every instance. The reference is
the code; where a model abstracts from it, this file says so.

## The system

A *durable handler* is an async Python function. Its operations (steps, waits,
callbacks, chained invokes, child scopes, groups, graphs) are tasks of one event
loop. What they do is made durable as *records* through checkpoint requests to a
service, under a lease token. When nothing can go on, the handler suspends and
the invocation ends; a later invocation runs the handler again from the start,
and every operation whose record is complete replays it.

| part | code | state it keeps | operations |
|---|---|---|---|
| journal | `_journal.py` `Journal` | entries, mailbox, pending receipts, writer task, failure, token | `spawn`, `commit`, the write loop, `close`, `store`, `restore` |
| cursors and tickets | `_journal.py` `Cursor`, `Ticket` | the next position of a scope, reserved local ids, the records not yet replayed | `reserve`, `select`, `write`, `child` |
| steps | `_effects.py` `step_effect` | a STEP record: status, attempt, result | replay, START, body, SUCCEED / RETRY / FAIL |
| waits, callbacks, invokes | `_effects.py` | their records and deadlines | start, read, pause |
| scopes | `_effects.py` `scope_effect` | a CONTEXT record | start, body, prepare, before-commit, verdict |
| compositions | `_effects.py` `with_retry`, `wait_for_condition`, `wait_for_callback`, `recurse`, `now` | those of the operations they are made of | a scope whose body retries, polls or submits |
| terminal scopes | `_finalize.py` | registered compensations and cleanups | register, run in reverse, settle |
| groups | `_groups.py` `collect`, `parallel`, `map` | active, paused and finished branches | launch, await, decide, cancel, report |
| graphs | `_graph.py` | expressions, decisions, results | compile, decide, launch, collect, report |
| handler entry | `_effects.py` `invoke_workflow` | one journal, one root context | read the initial state, run, answer, close |
| local runner | `_testing.py` | records, virtual clock, failures in a row, the `changed` event | drive, advance, transact, callbacks, close |
| transport, cloud runner | `_remote.py` | a client, its tries, the lease | checkpoint, page, invoke, poll, history |
| payload codecs | `_payloads.py` | files and directories | make, write, flush, publish; read on replay |
| serializers, types, views | `_serde.py`, `_types.py`, `_views.py` | none that is durable | conversions |
| conformance suite, examples | `conformance/`, `examples/` | handlers | compose the operations |

They interact as follows. An effect commits through its `Ticket` and waits for a
receipt; the journal's single writer sends what is queued, merges the answer and
settles the receipts. A *suspension* is the exception `Pause` (a
`BaseException`): it leaves the handler through every scope above it, and
`Journal.close` then **cancels** whatever else still runs. A group and an
abandoning application cancel tasks too, so `CancelledError` has several
meanings; several of the findings below come from there. The driver (the local
runner, or the service) invokes again what has answered PENDING.

### What is hard here

- Operations, the writer and `close` interleave at every `await`; a stretch with
  no `await` is atomic, since the loop runs one callback at a time.
- A request may be applied although its answer is lost; another invocation may
  hold the lease; a process may die between any two commits.
- A later invocation knows only the records. What the earlier one had in memory
  (its outcomes, decisions and registrations) is computed again, from records
  that may meanwhile have moved on.
- Suspension, retry, cancellation and failure are all exceptions, and each layer
  must pass on, translate or checkpoint each of them.
- The runner's clock is virtual and jumps; deadlines, answers and heartbeats race.
- Operations are known by the order in which their scope reserves them, so a
  replay that takes another path, retries a body or leaves tasks behind can read
  a record that is not its own or write under a scope that is over.
- A result may be a file. Record and file are made durable by two systems, and
  the host of either may fail between the two.

`PROJECT.json` lists these hazards one by one, at their lines, with the
properties that cover them.

## Modules

| module | what it models | composed with |
|---|---|---|
| `CheckpointLog` | what a journal promises: updates become durable in the order they were submitted, each is answered, a broken journal refuses | the abstract specification of `Journal` |
| `Journal` | one invocation's journal: tasks, mailbox, writer, batches, pages, lease, failure, `close` and its interruption | implements `CheckpointLog` |
| `Step` | one step over overlapping invocations: attempts, both semantics, retries, lost answers, the lease, the driver's failure count | takes the journal as "a commit is applied, refused or its answer is lost" |
| `Groups` | one group over invocations: slots, policy, suspension, cancellation, branch records, the report | branches as scopes with one wait |
| `Runner` | the local driver, its clock, the records of waits, callbacks and invokes, and the world that answers | the handler as starts and reads of operations |
| `Terminal` | one scope over invocations, plain or terminal: body, positions, chunks, verdict, actions, cancellation | the journal as an ordered mailbox that is flushed by `close`; steps as their records |
| `Plan` | expressions and compilation of a graph, as functions | used by `Flow` |
| `Flow` | one flow over invocations: scan, decisions, launches, results | node scopes as records |
| `Programs` | durable programs as data: statements, errors, and the compositions as the statements they run | used by `Workflow`, `Conformance`, `Examples` |
| `Workflow` | one execution of a whole handler: nested scopes and cursors, tasks that interleave, suspension, replay, answers from outside, lost processes | everything above a checkpoint; `Journal` and `Step` have what is below |
| `Meaning` | what a program means when each operation runs once to its end; the reference `Workflow` is held against | extends `Workflow` |
| `Conformance`, `Examples` | the handlers of `conformance/` and `examples/` as programs, one definition per file | run by `MCWorkflow` |
| `GroupHandlers` | the groups those handlers start | run by `MCGroups` |
| `Remote` | a deployed execution: overlapping invocations, requests with retries and lost answers, pages, payload files, a host that loses power, the cloud runner | steps as START, body, payload, SUCCEED |
| `MC*` | the constants of the TLC instances; `MCFlow` also checks `Plan` against reference definitions | |
| `*Proofs` | theorems and their proofs | |

The modules are cut where the code has an interface, and each takes its
neighbours by what those promise. `Step` relies on what `Journal` establishes:
a commit that returns is applied and readable (`AckedIsReadable`), and one that
raises leaves the journal broken. `Terminal` and `Groups` rely on `close`
ending with the mailbox served (`CloseReturns`, `ReceiptsSettle`), on the order
of commits (`LogIsCommitPrefix`) and on a step's record meaning what the handler
was given (`DeliveredIsDurable`). `Terminal` in turn justifies the node records
of `Flow`. `Workflow` takes a checkpoint as one atomic step for the same reasons,
and lets a process be lost between any two of them. `Remote` shows that what
`Journal` calls an answer, a loss or a takeover is what the transport makes of
its requests (`FencedMeansSuperseded`). `Runner` justifies the fairness the
others assume of time: a pending timer is eventually due and the driver invokes
again.

### State and actions

Each module names its variables and actions after the code; `PROJECT.json` maps
every definition to its lines. The correspondences that need a word:

- **Journal.** A receipt is the future of an update. `Commit` is `commit` up to
  its `await`; `Resume` is what comes after. `WriterSend` takes what the queue
  holds, up to `MaxBatch`, and looks at the sentinel; `WriterReceive` merges the
  first page, `WriterLastPage` the rest, and only then are receipts settled.
  `Takeover` is external. `phase` is the program counter of `close`.
- **Step.** A *slot* is the environment an invocation runs in. `view` is the
  entry it was handed; `request` and `wire` are its last update and what became
  of it. `runs` counts starts of a body (history).
- **Groups.** `task` is the life of a branch's task; `outcome` and `paused` are
  `collect`'s; `queued` holds branches whose verdict is submitted but not yet
  durable. A `Wake` is one turn of the loop of `collect` over all finished
  branches, in index order, with the policy asked after each. A branch whose fate
  is `SERDES` or `PERMANENT` is *broken*: what `observe` raises for it leaves
  `collect` and fails the scope around the group whatever its policy is, with no
  items (reason `break`). A NESTED branch that failed with a SerDesError is
  replayed as an ExecutionError (`raise_record`), so a group broken by it and then
  lost to a crash may, on the replay, count it as one more failure.
- **Runner.** `Clock` is the time `sync_time` would set. `Sleep`, `SkipAhead` and
  `Stall` are the three ways `_drive` deals with a PENDING invocation.
- **Terminal.** `next` is the cursor. A record found at a position is accepted
  only if its identity is that of the operation (`Selects`). `cause` says why the
  actions run. `Cut` is a sibling's `Pause` reaching the handler and `close`
  cancelling the scope; `Abandon` is the application cancelling it.
- **Programs, Workflow.** A statement awaits one operation, or a gather of
  several, and names the errors its `try` catches; what a callable computes is
  how each of its attempts ends. A task is known by its *address*, the cursor
  positions from the root down to it, which stands for the SHA-256 key.
  `Checkpoint` is a commit with its answer: the service applies it, refuses it
  (an ended parent, a record with another identity) and so breaks the journal.
  `view` is `journal.entries`. `Invoke` again after a suspension needs `stirred`:
  an end the invocation had not read. A gather that fails leaves its tasks
  running, as `asyncio.gather` does. A scope's `phase` says where its body is: it
  runs, it awaits what it has launched, it is about to `back_off` from an attempt
  of a `with_retry`, or it is `backing_off` in the wait before the next. `asked`,
  `told` and `logged` are history; a place in `asked` is a phase, an attempt, a
  statement, a part of a gather, and the operation that stands there.
  An operation whose record is of another kind is refused before it can read or
  write: what a gather has started before it goes on, its own position is taken,
  and the body is raised a "state" error (phase `refused`). That the record also
  holds a name and a subtype, which are compared too, is data. A chained invoke
  that failed raises any of the errors its record may hold.
  `Bodies` gives of each handler the bodies in it, which a definition by recursion
  would otherwise have to find; `IsBody` says what a statement may be.
- **Remote.** `Message` is one try of one request; `wire` holds those on their
  way, so a try that timed out may still arrive (`ArriveLate`). `answered` is the
  service's memory of client tokens. `worker` is an invocation with its request,
  its pages and the step it is at. A file goes from nothing over `written` and
  `synced` to `durable`, its directory from `none` over `made` to `durable`, and
  `LosePower` takes what is not durable. A delay may be over while an invocation
  is at work (`Elapse`), which if it then pauses is followed by another at once. A file that cannot be read loses the invocation or, by a permanent
  error, fails the handler (`ReadFails`).
- **Plan, Flow.** An expression is the table of its subexpressions. `chosen` is
  the decision an invocation follows, `guards` the recorded one. `Pass`,
  `Decide`, `Record`, `Launch`, `Await` and `Collect` are the loop of
  `execute_plan`, cut at its awaits (the guard's step and `asyncio.wait`). A node
  is *broken* by an error that is not its result (`control_error`: an
  ExecutionError, a SerDesError or a permanent InvocationError of its body); the
  flow then fails without results.

## What the runs check

Passing runs:

| run | instance | shows |
|---|---|---|
| `journal` | 2 tasks and the handler, 1 commit each, batches of 2, one takeover, one interruption | acknowledged updates are readable, the log is a prefix of the commits, receipts are served and settled, `close` returns, `CheckpointLog` is implemented |
| `step` | 2 overlapping invocations, 2 attempts, 2 results, 2 faults, 1 cut, all four kinds of step | at-most-once bodies, durable starts, durable outcomes, attempts counted by their own invocation, the execution ends |
| `groups` | 3 free branches with 2 slots under three policies, NESTED and FLAT, every wait, branches that succeed or fail in every way and broken ones beside them, and the groups of the conformance suite and the examples; 1 crash, 1 interruption | slots, reports justified by their items, items that match records, a report in the end |
| `runner` | five handlers over 2 callbacks, 2 timers and an invoke, 4 seconds, budget 3 | final is final, answers in time, heartbeats bounded, timers in order, the run ends |
| `terminal` | six scopes of 2 operations (success, failure, encoding failure, two abandonments, a plain child with a large result of 2 chunks), 1 crash, 1 cut, 1 retry, 1 interruption, 1 permanent error | order of actions, an end that is backed by its actions and the cancellation policy, no undoing of what did not fail, whole manifests, an end |
| `flow` | five graphs of 3 nodes (race, joint recovery, chain, pruned, empty), every fate and wait, broken nodes among them, 1 crash, 1 interruption | decisions persist, results are the graph's meaning and missing exactly if a node that must run is broken, failures accounted for, an end |
| `workflow` | about a hundred handlers (the conformance suite, the examples, and ten mixes of them), all answers from outside, 2 lost processes | an address is one place of the program, outcomes are the same in every replay, PENDING is backed by something that will wake, nothing outlives its scope, the outcome is the program's meaning, an end |
| `remote` | 3 steps, the first and third in files, 2 tries, 3 invocations, 2 failures of any kind | recorded payloads are on disk, an invocation works on a whole state (all but a delay that has ended since), no request loses its own lease, the runner's report is complete, an end |

`MCFlow` also checks, as assumptions over all graphs of three nodes and all
expressions over two leaves: cycles are found exactly, the live nodes are those
the outputs need and come after what they depend on, what is needed is the least
closed set, and a decision once made stays the same whatever else becomes known.
The first three are also theorems, for graphs of any size.

Runs that expect a violation, each a disagreement between the code and what its
documentation says (quoted under `findings`; each was reproduced by running the
library):

| run | what it shows |
|---|---|
| `terminal_suspended` | a sibling's suspension cancels a terminal scope, and its cleanup runs |
| `terminal_large` | a chunk half written makes the next invocation reject the same result and compensate a body that succeeded |
| `workflow_gather` | a child context whose `gather` is left at the first failure has a sibling still at work: its checkpoint under the ended scope is refused, and fails an execution whose handler had caught the failure. `NothingOutlivesItsScope` and `ResultIsMeaning` hold of handlers that do not do this (`workflow`) |
| `workflow_logs` | only an operation without a record ends replaying, so a log after a wait that is the last recorded operation is taken for a replayed one in the only invocation that reaches it |

Further observations, each stated as a property with a configuration of its own,
which TLC finds violated (`tlc -config MCStepFailure.cfg MCStep`, and so on). They
are kept beside the listed runs, whose properties do not see these hazards:
`ItemsMatchRecords` is about the items a report has, `RunEnds` about a run that
ends, if only by a failure, and `AnswersInTime` about a deadline once it is set.

| configuration | property | what it shows |
|---|---|---|
| `MCStepFailure.cfg` | `FailureIsCheckpointed` | `step_effect` re-raises an InvocationError, SerDesError or ExecutionError of the body without RETRY or FAIL (`_effects.py:196`): the handler acts on a failure no replay will see. `_effects.py:274` says a callable failure is checkpointed |
| `MCGroupsStarted.cfg` | `StartedIsReported` | `collect` reports what this invocation started or finished (`_groups.py:165`): a branch begun in an earlier invocation is missing from an early report. `_types.py:873` says it is retained as CANCELLED |
| `MCRunnerDelivery.cfg` | `DeliveryWakes` | a callback answered during the invocation that has read it as pending wakes nothing: the driver finds it out when it decides to wait (`_testing.py:388`) and then clears the event (`_testing.py:400`), and the execution may fail for want of pending work. `_testing.py:496` says it wakes its execution |
| `MCRunnerTimeout.cfg` | `CallbackHasItsTime` | a callback created after real time has passed gets its deadline from an old clock (`_testing.py:94`), so it may time out before its time. `_effects.py:493` calls the timeout the overall callback deadline in seconds |

`MCWorkflowChanged.cfg` is one more configuration, which passes: handlers that take
the way of whichever of two failures they hear of first, and so another one when
they replay, never make the record of one operation that of another
(`RecordsStand`, proved for every handler as `WorkflowRecords`).

Seen while modelling, and not stated as a property: a second cancellation during
`close` leaves the journal open or the writer running (`_journal.py:451`); a
retryable interruption of a branch in the turn in which the policy decides is
reported as the branch's failure (`_groups.py:170`); which failures an ANY
expression handles depends on which alternative is known when the decision is
made, so whether a flow reports a failure as unhandled does too
(`_graph.py:296`); a live `StepInterruptedError` replays as
`CallableRuntimeError`; a handler that swallows the error of a broken journal
may answer SUCCEEDED; the paging of the initial state follows a marker that
repeats (`_effects.py:896`), which the history of the cloud runner refuses.

### Bounds

Every bound is a constant whose name says what it limits. Two tasks and the
handler are enough for a batch with another commit behind it, a commit before
and after the failure of a batch, and a task that outlives the first gather of
`close`. Two slots are enough for every overlap of an invocation with one taken
for dead, since the lease distinguishes only the current token from the others.
Two attempts separate the last one from one that is retried. Three branches with
two slots are enough for one that waits for a slot, one that pauses and one that
decides the policy. Two stages give an order to compensations and a body that
fails between them; two chunks a half-written store. Three nodes give every
expression with two leaves. One crash at any point of any invocation, with a
cut, an interruption and a retry beside it, gives up to five invocations.

`Workflow` needs no bound on its handlers but that they are given: every answer
comes at every moment it can, and two lost processes put one loss into the
recovery from another. The handlers stand in for all the files of `conformance/`
and `examples/` that differ in names, payloads, codecs or durations only. In
`Remote`, three steps give a file, an inline result and a file whose directory
exists; two tries a retry and the last one; three invocations one that overlaps
and one that follows; two failures a failure in the recovery from another. The
run also passes with two steps, three failures and four invocations (1.4 million
states), which takes too long to be kept. Larger instances repeat these
patterns; the proofs drop the bounds altogether.

### Fairness

Weak fairness of the steps the event loop, the backend or the driver takes when
they are ready: the loop runs ready callbacks, a request is answered or fails,
the driver invokes what is due. Bodies and handlers are assumed to end. Strong
fairness is used for timers that can elapse only between invocations: a timer
that stays pending fires however often the execution is invoked meanwhile, which
`Runner` shows of the local driver (`RunEnds`, `TimersInOrder`). Nothing makes a
crash, an interruption, a cancellation or an answer from outside happen.

In `Workflow` the tasks of an invocation go on (`Work`), the world ends every
timer, callback and invocation that is open (`World`: a callback nobody answers
has its time-out), and an execution that is due is invoked. In `Remote` each
invocation goes on, the service answers what reaches it and invokes what is due,
delays pass and the runner polls; requests that fail, time-outs and crashes are
failures, and are bounded. The bound is what excludes a transport that fails for
ever, and a page marker that repeats for ever.

Deadlock checking is on for `workflow` and `remote`, where the end of the
execution is an action of its own (`Over`, `Finished`): any other state with
nothing to do is an error. It is off elsewhere: an execution that is over stops.

## What is proved

| theorem | says |
|---|---|
| `JournalProofs!JournalTypeOK` | types, for any number of tasks, commits, batches, takeovers |
| `JournalProofs!JournalAcked` | an acknowledged update is applied and readable |
| `JournalProofs!JournalServed` | an open receipt is registered, queued or in flight, and a writer lives |
| `JournalProofs!JournalLogPrefix` | the log is at every moment a prefix of what was committed, in that order |
| `JournalProofs!JournalImplements` | every step is a step of `CheckpointLog` or a stutter |
| `StepProofs!StepTypeOK` | types, for any number of invocations and faults |
| `StepProofs!StepAtMostOnce` | no attempt runs twice under AT_MOST_ONCE_PER_RETRY |
| `StepProofs!StepStartIsDurable` | bodies run only after a durable START |
| `StepProofs!StepDelivered` | the handler is given what the record holds |
| `StepProofs!StepCounts` | an attempt is counted by the invocation that made it |
| `RunnerProofs!RunnerTypeOK` | types, for any set of operations and any budget |
| `RunnerProofs!RunnerHeartbeats` | heartbeats never outlast the deadline |
| `RunnerProofs!RunnerFinal` | final records stay |
| `RunnerProofs!RunnerAnswers` | answers count only before the deadline |
| `RunnerProofs!RunnerTimers` | the driver jumps over no durable timer |
| `GroupsProofs!GroupsTypeOK` | types, for any groups of branches and any number of crashes and interruptions |
| `GroupsProofs!GroupsSlots` | never are more branches unfinished than the limit allows, the suspended ones counted |
| `GroupsProofs!GroupsItems` | the items of a report agree with the branches' records |
| `GroupsProofs!GroupsReason` | the reason of a report is true of its items |
| `GroupsProofs!GroupsDecide` | only a completion callback leaves a group undecided whose branches have all finished |
| `TerminalProofs!TerminalTypeOK` | types, for bodies of any length, chunks and faults in any number |
| `TerminalProofs!TerminalManifest` | a large result is a success only with all of its chunks stored |
| `TerminalProofs!TerminalOrder` | actions are recorded in reverse order of registration, compensations before cleanups, in an undisturbed scope |
| `TerminalProofs!TerminalBacked` | an undisturbed scope ends only when what its end calls for has been run |
| `TerminalProofs!TerminalUndo` | an undisturbed scope compensates nothing in a body that cannot fail, large results of terminal scopes aside |
| `FlowProofs!FlowTypeOK` | types, for any set of accepted graphs, and a result held is the one recorded |
| `FlowProofs!FlowDecisions` | decisions persist across replay, for the same |
| `FlowProofs!FlowMeaning` | the results are what the graph means, for any schedule, crashes and interruptions |
| `FlowProofs!FlowFailures` | an unhandled failure decided nothing, and every other one was asked for or ran a node |
| `FlowProofs!CompileFindsCycles` | `compile` rejects exactly the graphs in which some nodes all wait for one another, of any size |
| `FlowProofs!CompileKeepsNeeded` | it keeps the least set with the outputs' nodes that has what its members depend on |
| `FlowProofs!CompileArranges` | the live nodes each come once, after all they depend on, and are those needed |
| `WorkflowProofs!WorkflowTypeOK` | types, for any handlers, answers and lost processes, and an outcome exactly when the execution is over |
| `WorkflowProofs!WorkflowInvariant` | the inductive invariant behind the types and the pauses |
| `WorkflowProofs!WorkflowPendingIsBacked` | PENDING leaves something that brings the next invocation, for the same |
| `WorkflowProofs!WorkflowRecords` | no record becomes that of another operation and none that has ended changes, whatever a handler does on replay |
| `WorkflowProofs!WorkflowReplays` | the inductive invariant of replay |
| `WorkflowProofs!WorkflowPlaces` | no operation reads the record of another, in straight and in steady programs (defined below) |
| `WorkflowProofs!WorkflowOutcomes` | every invocation gives the handler of a steady program what the first one did |
| `WorkflowProofs!WorkflowScopes` | in a steady program nothing outlives its scope |
| `RemoteProofs!RemoteTypeOK` | types, for any number of steps, tries, invocations and failures |
| `RemoteProofs!RemotePayloads` | a recorded payload file is on disk, for the same |
| `RemoteProofs!RemoteReport` | the runner reports an end only with the whole history |
| `RemoteProofs!RemoteFenced` | only another invocation makes a lease stale |
| `RemoteProofs!RemoteState` | the invocation the service listens to works on the records the service holds |

Each rests on the named assumption of its module (`JournalAssumption`,
`StepAssumption`, `RunnerAssumption`, `GroupsAssumption`, `TerminalAssumption`,
`FlowAssumption`, `RemoteAssumption`, `WorkflowAssumption`), which TLC evaluates
in the runs. They say that bounds are natural numbers, that the values standing
for "none" are none of the others, and that configurations have the fields and ranges the code validates.
Four say more: a custom completion callback of a group has a threshold (the
callback modelled is that of `map_with_custom_should_complete.py`); only a
terminal scope has a cancellation policy (`terminal_scope` is what takes one);
`Bodies` holds a handler's own body and those of the children in any of them, and a
body reads only callbacks it has created before, and does not go on without one
(its variable would be unbound); and the graphs of a flow are those `compile`
accepts: expressions that `Guard._combine` builds, no node twice in one or in its own, and no cycle. That
they can be arranged is not assumed: it is `CompileArranges`.

Each theorem follows from an inductive invariant:

- *Journal* (`Inv`): the sentinel is the last message and is there only when the
  journal is closed; what the writer holds in each of its states, and that a
  batch is applied before it is acknowledged; the writer ends only with a failure
  or a close. Without the place of the sentinel, a receipt could be behind it and
  never be served; without the batch part, an acknowledgement says nothing.
  `OrderInv` adds the order: what is applied or in flight is a prefix of the
  commits, and while a writer may still send, the mailbox holds those that
  follow, none left out. `JournalImplements` takes the steps one by one: `Commit`
  submits, the step at which the backend applies a batch makes its updates
  durable, a settled receipt is an answer, a failing writer breaks the log, and
  the others stutter.
- *Step* (`IInv`): which records are possible; what an effect has asked for at
  each program point; that a token equal to the sequence number means the view is
  the record; that a body runs only for an attempt that has begun; and `Once`,
  which says which attempts may have run given who may still be about to run one.
  The lease part is what makes the overlap of invocations safe.
- *Runner* (`IInv`): a started wait has a due time, due times and deadlines
  belong to started operations, failures are within the limit while the driver
  goes on, and what the handler has read is in its view. `RunnerTimers` is an
  action property: of the steps that move the clock, `SkipAhead` goes to the
  least pending time, which a lemma on the minimum of a finite set of them gives.
- *Groups* (`GInv`): what the group holds of a branch is how its task ended
  (`Looked`); the task of a NESTED branch ends only after its verdict is durable
  (`Durable`), so an outcome and a record agree; a group that has decided runs
  nothing more and reports when all have unwound (`Still`), and its reason is
  justified by the outcomes it was taken on (`Decided`), which are those it
  reports, or a branch is broken; branches are launched in the order of their index, and each launch
  beyond the limit has had an outcome to make room for it (`Slots`).
  `SlotsKept` is about a cardinality; `Slots` relates it to an index, which is
  what a step changes.
- *Terminal* (`TInv`): the mailbox of a scope has one update, or that of an
  interrupted action with the verdict behind it, and each fits the records it
  will meet (`Mailed`); where the task may be for given records (`Placed`); what
  room the cursor leaves (`Room`); chunks are filled from the first on
  (`Filled`); what a verdict goes by (`Called`).
  The order of the actions needs more (`SInv`). Every invocation that gets there
  ends the body at the same stage, so its end calls for the same `Script`, and
  each position of the cursor has one operation (`Line`). `Recorded`, `Updated`
  and `Follows` say that the records, an update under way and the task itself
  keep to it; `Settles` that a verdict comes after the last line.
  That the end calls for the same script in every invocation is true only of an
  *undisturbed* scope, one whose siblings cannot suspend or whose policy is
  empty: otherwise a suspension cancels the body anywhere and the actions of the
  policy run (the finding of `terminal_suspended`). The other exception is a
  large result of a terminal scope, of which `TerminalUndo` says nothing: a
  half-written chunk fails a body that had succeeded (`terminal_large`). The
  theorems exclude exactly what these findings show to be false. The scopes of the
  run `terminal` are all undisturbed; a disturbed one is only in
  `terminal_suspended`, so of disturbed scopes nothing is claimed.
- *Flow* (`IInv`): while a decision is being written its node is not launched and
  its inputs are known, and a record that is complete holds that decision.
  For the results (`MInv`): a record, and a result read from it, is what the
  graph means of its node; a decision, recorded or about to be, says what the
  graph means although it was taken on part of the results; the failures it
  handles are leaves of the expression, which would hold without any other
  failure; and what the scheduler counts as handled comes from the decisions it
  has launched. The step that needs this is `Decide`: once `Guard.evaluate` is
  sure on some of the results, it says the same of all of them (`AnyValue` and
  `AllValue` are monotone, and a failure that is not in `handled` was not used).
- *compile*: after each round of the queue (`RoundInv`) the ordered nodes are
  arranged, those queued are the others whose dependencies are all ordered, and
  `incoming` counts the dependencies that are not. So a queue that runs dry
  leaves nodes that all wait for one another, and the least of a cycle's nodes
  in an arrangement would have to come before itself. The search for what is
  needed grows or is closed, and cannot grow more than there are nodes.

`Kept`, `Evaluate`, `Ordered`, `Needed` and the flow's `Meaning` are recursive
functions. For each, a table that satisfies its equation is shown to exist, built
position by position (`Recursion`), and what it computes follows by induction over
the positions (`Induction`, `StrongInduction`): of sets of positions, whose least
element `WFMin` gives, in place of the induction theorems, whose operator
parameter the provers cannot instantiate.
- *Remote* (`PInv`): a *claim* on a file is a record that refers to it or a
  request under way that will. Whoever has a claim is past the step that wrote
  the file (it will not write it again, and no error of its own will unlink it),
  and the file and its directory are durable; an invocation that has still to
  publish its file has no claim on it. The claims of requests are needed because
  a try that timed out may be applied long after its invocation has ended, with
  the power lost in between. One lemma per action; the property needs only that
  `directory` and `persist` keep the order of their writes.
  The runner's report needs `Reported`: the outcome it has read is final, and a
  page of history it holds was read after that.
- *Remote, the lease* (`LInv`, which is `PInv` and `LeaseInv`): nobody knows a
  lease that was not given out, and an invocation that has been superseded, with
  all it has sent, knows only leases that are over (`Behind`, `MailBehind`). Of
  the latest invocation: it asks for the page or step it is at (`AsksHere`); the
  service has answered nothing it has not asked for yet (`Ahead`); it holds the
  valid lease, or the answer to its request, kept under the client token, is the
  valid one (`HoldsLease`); a try of it still under way has been answered or is
  of that request (`Mail`); what it has read is what the service holds (`Reads`).
  Without the client token the retry of an applied request would be refused, and
  the invocation fenced by itself.
- *Workflow* (`WInv`): what an invocation knows is what the service holds but for
  what the world has ended since (`Known`); tasks are nested, each in the scope
  that reserved its address, and a scope awaits what it reserved last (`Formed`,
  `Heard`); a callback in hand has a record (`HandlesFormed`); records are of the
  kind of the task at their address (`KindsFit`). For `PendingIsBacked` it adds
  (`Pauses`): while any task has paused, something is open that no task of this
  invocation is still at work on, or something has ended that it has not read.
  "No task is still at work on it" is what makes it inductive, since a record that
  is open now may be closed by its own task in the next step.
  One lemma says in which few ways a step can change the tasks (`Way`: a task
  finishes or goes on; a body proceeds, backs off, restarts or launches), and
  the parts of the invariant are shown for these. `WorkflowRecords` is the action
  property that follows: a task works only on a record of its own kind
  (`KindsFit`), and every action that writes one writes a record in progress.
- *Workflow, replay* (`DInv`): every address is taken by one place, and that place
  follows from what the addresses before it came to (`Places`): to be at a
  statement, each one before it has ended with a success or with an error it
  catches, and an attempt of a `with_retry` follows one whose failure allows it
  (`Led`, `Failed`); the places of a scope come in the order of its body
  (`Ordered`), and each scope stands where its records have led it (`Stands`). Two
  invocations at the same position of a cursor have then been led there by the
  same outcomes, so they ask for the same operation. This needs that outcomes do
  not change (`Agreeing`: what the handler was told is what the record will be
  replayed with), and this in turn that what runs has a record in progress, that
  the operations of a child are over when it ends, and that no update is ever
  refused (`Working`, `InStep`, `NothingOutlivesItsScope`). None of these is
  inductive without the others.
  They hold of *steady* programs: operations end only with a record, and the
  bodies below the handler's own await one operation at a time. The second is what
  the finding of `workflow_gather` violates. The first leaves out virtual children,
  errors that pass without a checkpoint (`_effects.py:196`: a replay does not see
  them), at-most-once steps below the handler, which are interrupted in one
  invocation and `CallableRuntimeError` in the next, and a `try` in a child that
  tells the two apart that a failed check is raised as. The handler's own body may
  gather, catch and run at-most-once steps as it likes: it is not retried, and so
  has one way through. Of *straight* programs, those without `with_retry`, the
  places hold without any of this, because there is only one way through a
  body. Of the 102 handlers of `workflow` 98 are steady and the other four (a
  virtual child, three with a gather in a child) are straight; for these four, TLC
  shows the properties that `WorkflowOutcomes` and `WorkflowScopes` do not.

Left to TLC: every liveness property (`ReceiptsSettle`, `CloseReturns`,
`ExecutionEnds`, `GroupReports`, `RunEnds`, `ScopeEnds`, `FlowEnds`);
that a handler's outcome is its program's meaning (module `Meaning`, whose
operators are recursive, checked over the handlers of the suite and the examples);
the other properties of `Workflow` for programs that are neither steady nor
straight.

Every component's module has a type invariant `TypeOK`, which is proved; the runs do not
repeat it.

## What is not modelled

- Template generator and build files: nothing of them runs with a workflow.
- Extension operations: single-use handles around `step_effect`, `wait_effect`
  and `scope_effect`, which are modelled; what they add is that a handle is used
  once, and custom local ids. No handler of the suite or the examples uses them.
- Serializers (`_serde.py`) and the codecs of `_payloads.py` other than files
  (previews, cross-execution references): conversions of data no property tells
  apart. Their failures are inputs of the models (a result that cannot be
  encoded, a permanent or a passing serialization error).
- Context variables, read-only views, re-exports: no durable state.
- Of scopes: `ReplayChildren` (the children of a summarised result run again) and
  nested terminal scopes. Of groups: the summaries of oversized reports, and a branch
  that raises a CancelledError of its own (`_groups.py:119`). Of
  graphs: the declaration API and input cloning. Of the handler entry: an
  oversized handler result and the decoding of the event. Of the cloud runner:
  its calls to callbacks. Of strategies: the delays, arithmetic on random jitter.
- `Workflow` does not repeat what other modules have: the parts of a checkpoint
  (`Journal`), overlapping invocations and the limit of five failures (`Step`,
  `Runner`), groups (`Groups`), graphs (`Flow`), actions (`Terminal`).
- `Remote` has one directory for the chain the code makes, one retry delay, and
  a service modelled from how `_remote.py` uses it: leases, client tokens, pages.
  A file is named by its invocation and step, which stands for the uuid.
- Of the handlers: `parallel_bad_concurrency` (a validation error),
  `target_non_durable` (a plain Lambda), the graphs of `examples/flow` (`Flow`
  explores their shapes), maps of more than five branches,
  `comprehensive_operations`, `function_naming` and the microVM example of
  terminal scopes.

## Plan

Done, in this order: the journal and its abstract log; the step over overlapping
invocations; groups; the local runner; terminal scopes with the chunk store;
graphs; whole handlers with the compositions, the conformance suite and the
examples; the transport with payload files and the cloud runner.

Next:

1. *Composition*: terminal scopes and groups as statements of `Workflow`, so that
   a group inside a terminal scope inside a retried body is one program; the
   replay of the children of a summarised result.
2. *Extension operations*: handles with local ids beside positions, and that two
   live reservations never share a key.
3. *Strategies*: the delays of retry and polling strategies as a pure module.
4. *Proofs*: the outcomes of programs whose errors may pass without a checkpoint,
   up to the failures a replay does not see; the places of a gather in a child
   whose errors nobody catches.
