-------------------------------- MODULE Remote --------------------------------
(***************************************************************************)
(* A deployed execution and what lies between its invocations and AWS       *)
(* Lambda: the requests of ServiceBackend and AsyncAws with their retries,  *)
(* the pages of the initial state, the files of FileSystemSerDesStage, and  *)
(* the cloud runner that starts the execution and watches it (_remote.py,   *)
(* _payloads.py, invoke_workflow of _effects.py).                           *)
(*                                                                         *)
(* The handler awaits its steps in turn.  Invocations may overlap: the      *)
(* service starts another when it takes one for dead.  A file is named by   *)
(* the invocation and the step that wrote it: the uuid of the name.         *)
(***************************************************************************)
EXTENDS Naturals, FiniteSets

CONSTANTS
    Steps,              \* the steps of the handler
    Offloaded,          \* those whose results go to a file, not into the envelope
    Tries,              \* total_max_attempts of the transport
    MaxInvocations,     \* bound: invocations of the execution
    MaxFaults           \* bound: failures of any kind

ASSUME RemoteAssumption ==
    /\ Steps \in Nat \ {0} /\ Offloaded \subseteq 1 .. Steps
    /\ Tries \in Nat \ {0} /\ MaxInvocations \in Nat \ {0} /\ MaxFaults \in Nat

VARIABLES
    records,            \* the service's records: status, and by whom the result is
    lease,              \* the checkpoint token that is valid
    answered,           \* by client token: the lease its request was answered with
    due,                \* the service is to start an invocation
    started,            \* how many it has started
    outcome,
    wire,               \* checkpoint and page requests under way to the service
    worker,             \* the invocations
    directory,          \* the execution's directory: "none", "made", "durable"
    files,              \* the payload files, by invocation and step
    runner,             \* the cloud runner
    faults

serviceVars == <<records, lease, answered, due, started, outcome>>
fileVars == <<directory, files>>
vars == <<serviceVars, wire, worker, fileVars, runner, faults>>

Step == 1 .. Steps
Invocation == 1 .. MaxInvocations
Checkpoints == {"START", "SUCCEED", "RETRY"}
NoRecord == [status |-> "none", by |-> 0]
NoAsk == [kind |-> "none", step |-> 1]
Idle == [phase |-> "none", lease |-> 0, seen |-> [s \in Step |-> NoRecord],
         step |-> 1, page |-> 1, ask |-> NoAsk, try |-> 1]

Init ==
    /\ records = [s \in Step |-> NoRecord]
    /\ lease = 0
    /\ answered = [n \in Invocation |-> [k \in Checkpoints |->
                     [s \in Step |-> [t \in 1 .. Tries |-> 0]]]]
    /\ due = FALSE
    /\ started = 0
    /\ outcome = "none"
    /\ wire = {}
    /\ worker = [n \in Invocation |-> Idle]
    /\ directory = "none"
    /\ files = [n \in Invocation |-> [s \in Step |-> "none"]]
    /\ runner = [phase |-> "new", status |-> "none", page |-> 1,
                 read |-> [s \in Step |-> NoRecord]]
    /\ faults = 0

Fault == faults < MaxFaults /\ faults' = faults + 1

Set(n, changed) == worker' = [worker EXCEPT ![n] = changed]

----------------------------------------------------------------------------
(* Invocations                                                             *)

\* Faulty variant of Paged: the last page is not read.
PagedWithoutLast(w, p) ==
    IF p < Steps
    THEN [w EXCEPT !.seen[p] = records[p], !.phase = "paging", !.page = p + 1]
    ELSE [w EXCEPT !.phase = "running"]

\* The state of an invocation once page p of its initial state is read.
Paged(w, p) ==
    LET read == [w EXCEPT !.seen[p] = records[p]]
    IN IF p < Steps THEN [read EXCEPT !.phase = "paging", !.page = p + 1]
       ELSE [read EXCEPT !.phase = "running"]

\* The event has a lease and the first page of the records.
InvokeWorkflow ==
    /\ due /\ outcome = "none" /\ started < MaxInvocations
    /\ due' = FALSE
    /\ started' = started + 1
    /\ lease' = lease + 1
    /\ Set(started', Paged([Idle EXCEPT !.lease = lease'], 1))
    /\ UNCHANGED <<records, answered, outcome, wire, fileVars, runner, faults>>

Elapsed == \E s \in Step : records[s].status = "READY"

\* An invocation ends: the service hears of the one it started last, and starts
\* another if that was lost, or if it pauses for a delay that is over by now.
Ended(n, how) ==
    /\ Set(n, [worker[n] EXCEPT !.phase = "ended"])
    /\ due' = (due \/ (n = started /\ (how = "lost" \/ (how = "PENDING" /\ Elapsed))))
    /\ outcome' = IF n = started /\ how \in {"SUCCEEDED", "FAILED"} /\ outcome = "none"
                  THEN how ELSE outcome
    /\ UNCHANGED <<records, lease, answered, started>>

Alive(n) == worker[n].phase \notin {"none", "ended"}

Crash(n) ==
    /\ Alive(n) /\ Fault
    /\ Ended(n, "lost")
    /\ UNCHANGED <<wire, fileVars, runner>>

\* The service starts another invocation although this one goes on.
TakeForDead ==
    /\ started > 0 /\ Alive(started) /\ ~due /\ Fault
    /\ due' = TRUE
    /\ UNCHANGED <<records, lease, answered, started, outcome, wire, worker, fileVars,
                   runner>>

----------------------------------------------------------------------------
(* Requests: AsyncAws.request                                              *)

\* Faulty variant of Token: a new one in each round of the loop.
TokenOfTry(w) == w.try

\* The client token is set before the loop: with the invocation, the kind and
\* the step, the number of the token among those of the request.
Token(w) == 1

\* One try of a request: signed anew, with the client token of the request.
Message(n, w) ==
    [from |-> n, kind |-> w.ask.kind, step |-> w.ask.step, lease |-> w.lease,
     try |-> w.try, token |-> Token(w)]
Send(n, w) ==
    /\ Set(n, [w EXCEPT !.phase = "asking"])
    /\ wire' = wire \cup {Message(n, w)}
    /\ UNCHANGED <<serviceVars, fileVars, runner, faults>>

Ask(n, kind, step) ==
    Send(n, [worker[n] EXCEPT !.ask = [kind |-> kind, step |-> step], !.try = 1])

AskPage(n) == worker[n].phase = "paging" /\ Ask(n, "PAGE", worker[n].page)

SendAgain(n) ==
    /\ worker[n].phase = "waiting"
    /\ Send(n, [worker[n] EXCEPT !.try = @ + 1])

\* The one try the invocation is waiting for.
Waits(m) == worker[m.from].phase = "asking" /\ Message(m.from, worker[m.from]) = m

\* api_error: a permanent error of a checkpoint fails the handler.  The paging
\* is outside its try, and ends the invocation whatever the error is.
Raised(n, permanent) ==
    Ended(n, IF permanent /\ worker[n].ask.kind # "PAGE" THEN "FAILED" ELSE "lost")

\* No answer, or a status the loop retries.  A code of KMS is permanent in the end.
TryFails(n, code) ==
    IF worker[n].try < Tries
    THEN Set(n, [worker[n] EXCEPT !.phase = "waiting"]) /\ UNCHANGED serviceVars
    ELSE Raised(n, code = "KMS")

\* An answer reaches the invocation with the records, and its next lease.
Answers(n, all, next) ==
    LET w == worker[n]
    IN Set(n, IF w.ask.kind = "PAGE" THEN Paged(w, w.ask.step)
              ELSE [w EXCEPT !.phase = CASE w.ask.kind = "START" -> "ran"
                                         [] w.ask.kind = "RETRY" -> "pausing"
                                         [] OTHER -> "decoding",
                             !.seen = all, !.lease = next])

----------------------------------------------------------------------------
(* The service                                                             *)

Known(m) == m.kind # "PAGE" /\ answered[m.from][m.kind][m.step][m.token] # 0
Stale(m) == m.kind # "PAGE" /\ ~Known(m) /\ (m.lease # lease \/ outcome # "none")
Fresh(m) == m.kind # "PAGE" /\ ~Known(m) /\ ~Stale(m)

After(m) ==
    [records EXCEPT ![m.step] =
        CASE m.kind = "START" -> [status |-> "STARTED", by |-> 0]
          [] m.kind = "RETRY" -> [status |-> "PENDING", by |-> 0]
          [] OTHER -> [status |-> "SUCCEEDED", by |-> m.from]]

\* A request is applied under the lease it names, once by its client token.
Applied(m) ==
    IF Fresh(m)
    THEN /\ records' = After(m)
         /\ lease' = lease + 1
         /\ answered' = [answered EXCEPT ![m.from][m.kind][m.step][m.token] = lease']
    ELSE UNCHANGED <<records, lease, answered>>

Handled(m) == m \in wire /\ wire' = wire \ {m} /\ UNCHANGED <<fileVars, runner>>

Reply(m) ==
    /\ Handled(m) /\ Waits(m) /\ ~Stale(m)
    /\ Applied(m)
    /\ Answers(m.from, records',
               IF m.kind = "PAGE" THEN 0 ELSE answered'[m.from][m.kind][m.step][m.token])
    /\ UNCHANGED <<due, started, outcome, faults>>

\* Invalid checkpoint token: an error api_error takes for retryable.
Fenced(m) ==
    /\ Handled(m) /\ Waits(m) /\ Stale(m)
    /\ Raised(m.from, FALSE)
    /\ UNCHANGED faults

\* Nobody waits for the answer any more.
ArriveLate(m) ==
    /\ Handled(m) /\ ~Waits(m)
    /\ Applied(m)
    /\ UNCHANGED <<due, started, outcome, worker, faults>>

\* The request is applied and its answer lost.
LoseAnswer(m) ==
    /\ Handled(m) /\ Waits(m) /\ Fresh(m) /\ Fault
    /\ Applied(m)
    /\ IF worker[m.from].try < Tries
       THEN /\ Set(m.from, [worker[m.from] EXCEPT !.phase = "waiting"])
            /\ UNCHANGED due
       ELSE /\ Set(m.from, [worker[m.from] EXCEPT !.phase = "ended"])
            /\ due' = (due \/ m.from = started)
    /\ UNCHANGED <<started, outcome>>

\* The client times out; the request is still on its way.
TimeOut(n) ==
    /\ worker[n].phase = "asking" /\ Fault
    /\ TryFails(n, "none")
    /\ UNCHANGED <<wire, fileVars, runner>>

Refuse(m) ==
    /\ Handled(m) /\ Waits(m) /\ Fault
    /\ \/ TryFails(m.from, "throttled")
       \/ TryFails(m.from, "KMS")
       \/ Raised(m.from, TRUE)

\* ServiceBackend.transact refuses an answer without the next lease.
NoLease(m) ==
    /\ Handled(m) /\ Waits(m) /\ Fresh(m) /\ Fault
    /\ Applied(m)
    /\ Set(m.from, [worker[m.from] EXCEPT !.phase = "ended"])
    /\ due' = (due \/ m.from = started)
    /\ UNCHANGED <<started, outcome>>

\* A page names a marker the invocation has read: it reads that page again.
RepeatMarker(m) ==
    /\ Handled(m) /\ Waits(m) /\ m.kind = "PAGE" /\ Fault
    /\ Set(m.from, [worker[m.from] EXCEPT !.phase = "paging",
                                          !.seen[m.step] = records[m.step]])
    /\ UNCHANGED serviceVars

\* The delay before a retry is over, whether or not an invocation is at work.
Elapse(s) ==
    /\ records[s].status = "PENDING" /\ outcome = "none"
    /\ records' = [records EXCEPT ![s].status = "READY"]
    /\ due' = (due \/ ~Alive(started))
    /\ UNCHANGED <<lease, answered, started, outcome, wire, worker, fileVars, runner,
                   faults>>

----------------------------------------------------------------------------
(* The handler: its steps in turn                                          *)

Running(n) == worker[n].phase = "running"
At(n, statuses) ==
    /\ Running(n) /\ worker[n].step <= Steps
    /\ worker[n].seen[worker[n].step].status \in statuses

StartStep(n) == At(n, {"none", "READY"}) /\ Ask(n, "START", worker[n].step)

\* The result of a record, replayed or just written, is decoded: from its file
\* if it has one.
Decodes(n) == worker[n].phase = "decoding" \/ At(n, {"SUCCEEDED"})
ReplayStep(n) ==
    /\ Decodes(n)
    /\ Set(n, [worker[n] EXCEPT !.phase = "running", !.step = @ + 1])
    /\ UNCHANGED <<serviceVars, wire, fileVars, runner, faults>>

\* The file cannot be read: for the moment, and the invocation is lost, or by a
\* permanent error, and the SerDesError fails the handler.
ReadFails(n) ==
    /\ Decodes(n) /\ worker[n].step \in Offloaded /\ Fault
    /\ Ended(n, "lost") \/ Ended(n, "FAILED")
    /\ UNCHANGED <<wire, fileVars, runner>>

\* The body has run, or runs again.  Its result is encoded: inline, or in a file.
Ran(n) == worker[n].phase = "ran" \/ At(n, {"STARTED"})
EncodeInline(n) ==
    /\ Ran(n) /\ worker[n].step \notin Offloaded
    /\ Ask(n, "SUCCEED", worker[n].step)
EncodeInFile(n) ==
    /\ Ran(n) /\ worker[n].step \in Offloaded
    /\ Set(n, [worker[n] EXCEPT !.phase = "mkdir"])
    /\ UNCHANGED <<serviceVars, wire, fileVars, runner, faults>>

\* The step has just asked for a retry, or finds that its delay is not over.
PauseHandler(n) ==
    /\ worker[n].phase = "pausing" \/ At(n, {"PENDING"})
    /\ Ended(n, "PENDING")
    /\ UNCHANGED <<wire, fileVars, runner, faults>>

Return(n) ==
    /\ Running(n) /\ worker[n].step = Steps + 1
    /\ Ended(n, "SUCCEEDED")
    /\ UNCHANGED <<wire, fileVars, runner, faults>>

----------------------------------------------------------------------------
(* Files: directory, persist                                               *)

Goes(n, from, to) ==
    /\ worker[n].phase = from
    /\ Set(n, [worker[n] EXCEPT !.phase = to])
    /\ UNCHANGED <<serviceVars, wire, runner, faults>>
File(n, content) ==
    files' = [files EXCEPT ![n][worker[n].step] = content]

\* Faulty variant of MakeDirectory: what exists needs no fsync.
MakeDirectoryKnown(n) ==
    /\ Goes(n, "mkdir", IF directory = "none" THEN "sync" ELSE "create")
    /\ directory' = IF directory = "none" THEN "made" ELSE directory
    /\ UNCHANGED files

\* mkdir, or another invocation has made it.
MakeDirectory(n) ==
    /\ Goes(n, "mkdir", "sync")
    /\ directory' = IF directory = "none" THEN "made" ELSE directory
    /\ UNCHANGED files

\* fsync of its parent.
SyncDirectory(n) ==
    Goes(n, "sync", "create") /\ directory' = "durable" /\ UNCHANGED files

\* O_CREAT with O_EXCL, then the content.
CreateFile(n) ==
    Goes(n, "create", "flush") /\ File(n, "written") /\ UNCHANGED directory
\* fsync of the file, then of the directory it is in.
FlushFile(n) ==
    Goes(n, "flush", "publish") /\ File(n, "synced") /\ UNCHANGED directory
PublishFile(n) ==
    Goes(n, "publish", "named") /\ File(n, "durable") /\ UNCHANGED directory

\* The envelope goes into the record.
Envelope(n) == worker[n].phase = "named" /\ Ask(n, "SUCCEED", worker[n].step)

Storing == {"mkdir", "sync", "create", "flush", "publish"}

\* An OSError: the file is unlinked.  A passing one is retried by the step.
StoreFails(n) ==
    /\ worker[n].phase \in Storing /\ Fault
    /\ File(n, "none")
    /\ UNCHANGED <<directory, runner>>
    /\ \/ Ended(n, "FAILED") /\ UNCHANGED wire
       \/ LET w == [worker[n] EXCEPT !.ask = [kind |-> "RETRY", step |-> worker[n].step],
                                     !.try = 1]
          IN /\ Set(n, [w EXCEPT !.phase = "asking"])
             /\ wire' = wire \cup {Message(n, w)}
             /\ UNCHANGED serviceVars

\* The host of the files restarts: what is not durable is gone, and with it the
\* processes that were writing.
LosePower ==
    /\ Fault
    /\ directory' = IF directory = "made" THEN "none" ELSE directory
    /\ files' = [n \in Invocation |-> [s \in Step |->
                    IF files[n][s] = "durable" /\ directory = "durable" THEN "durable"
                    ELSE "none"]]
    /\ worker' = [n \in Invocation |->
                    IF worker[n].phase \in Storing \cup {"named"}
                    THEN [worker[n] EXCEPT !.phase = "ended"] ELSE worker[n]]
    /\ due' = (due \/ (started > 0 /\ worker'[started] # worker[started]))
    /\ UNCHANGED <<records, lease, answered, started, outcome, wire, runner>>

----------------------------------------------------------------------------
(* The cloud runner: run, wait_for_result, _history                        *)

Watch(changed) ==
    /\ runner' = changed
    /\ UNCHANGED <<records, lease, answered, started, outcome, wire, worker, fileVars>>

\* Its transport makes one try: an answer that is lost ends the run, but not the
\* execution it has started.
RunnerInvokes ==
    /\ runner.phase = "new"
    /\ due' = TRUE
    /\ \/ Watch([runner EXCEPT !.phase = "polling"]) /\ UNCHANGED faults
       \/ Watch([runner EXCEPT !.phase = "error"]) /\ Fault

\* Faulty variant of RunnerPolls: a failure is not an end.
RunnerPollsSuccess ==
    /\ runner.phase = "polling" /\ outcome = "SUCCEEDED"
    /\ Watch([runner EXCEPT !.phase = "history", !.status = outcome])
    /\ UNCHANGED <<due, faults>>

\* Faulty variant of RunnerPolls: the history is read whatever the status is.
RunnerPollsLate ==
    /\ runner.phase = "polling"
    /\ Watch([runner EXCEPT !.phase = "history", !.status = outcome])
    /\ UNCHANGED <<due, faults>>

\* A status that is not final, or an execution not found yet, is asked again.
RunnerPolls ==
    /\ runner.phase = "polling" /\ outcome # "none"
    /\ Watch([runner EXCEPT !.phase = "history", !.status = outcome])
    /\ UNCHANGED <<due, faults>>

RunnerReads ==
    /\ runner.phase = "history"
    /\ Watch([runner EXCEPT !.read[runner.page] = records[runner.page],
                            !.phase = IF runner.page < Steps THEN @ ELSE "done",
                            !.page = IF runner.page < Steps THEN @ + 1 ELSE @])
    /\ UNCHANGED <<due, faults>>

\* A request fails, a marker repeats, or the time of wait_for is over.
RunnerGivesUp ==
    /\ runner.phase \in {"polling", "history"} /\ Fault
    /\ \/ Watch([runner EXCEPT !.phase = "error"])
       \/ Watch([runner EXCEPT !.phase = "timeout"])
    /\ UNCHANGED due

----------------------------------------------------------------------------

Transport(n) == AskPage(n) \/ SendAgain(n)
Handler(n) ==
    \/ StartStep(n) \/ ReplayStep(n) \/ EncodeInline(n) \/ EncodeInFile(n)
    \/ PauseHandler(n) \/ Return(n)
Storage(n) ==
    \/ MakeDirectory(n) \/ SyncDirectory(n) \/ CreateFile(n) \/ FlushFile(n)
    \/ PublishFile(n) \/ Envelope(n)
Service == \E m \in wire : Reply(m) \/ Fenced(m) \/ ArriveLate(m)
Runner == RunnerInvokes \/ RunnerPolls \/ RunnerReads
Failures ==
    \/ \E n \in Invocation : Crash(n) \/ TimeOut(n) \/ ReadFails(n) \/ StoreFails(n)
    \/ \E m \in wire : LoseAnswer(m) \/ Refuse(m) \/ NoLease(m) \/ RepeatMarker(m)
    \/ TakeForDead \/ LosePower \/ RunnerGivesUp

Finished == outcome # "none" /\ wire = {} /\ (\A n \in Invocation : ~Alive(n))
            /\ runner.phase \in {"done", "error", "timeout"} /\ UNCHANGED vars

Next ==
    \/ InvokeWorkflow \/ Service \/ Runner \/ Failures \/ Finished
    \/ \E n \in Invocation : Transport(n) \/ Handler(n) \/ Storage(n)
    \/ \E s \in Step : Elapse(s)

Spec == Init /\ [][Next]_vars

\* The event loop and the file system go on, the service answers what reaches
\* it and invokes what is due, and delays pass.
FairSpec ==
    /\ Spec
    /\ WF_vars(InvokeWorkflow) /\ WF_vars(Service) /\ WF_vars(Runner)
    /\ \A n \in Invocation : WF_vars(Transport(n) \/ Handler(n) \/ Storage(n))
    /\ WF_vars(\E s \in Step : Elapse(s))

----------------------------------------------------------------------------
(* Properties                                                              *)

Statuses == {"none", "STARTED", "PENDING", "READY", "SUCCEEDED"}
RecordType == [status : Statuses, by : 0 .. MaxInvocations]
AskType == [kind : {"none", "PAGE"} \cup Checkpoints, step : Step]
Phases == {"none", "paging", "running", "asking", "waiting", "ran", "decoding",
           "pausing", "named", "ended"} \cup Storing
WorkerType ==
    [phase : Phases, lease : Nat, seen : [Step -> RecordType], step : 1 .. Steps + 1,
     page : Step, ask : AskType, try : 1 .. Tries]
RunnerType ==
    [phase : {"new", "polling", "history", "done", "error", "timeout"},
     status : {"none", "SUCCEEDED", "FAILED"}, page : Step, read : [Step -> RecordType]]
MessageType ==
    [from : Invocation, kind : {"PAGE"} \cup Checkpoints, step : Step, lease : Nat,
     try : 1 .. Tries, token : 1 .. Tries]

TypeOK ==
    /\ records \in [Step -> RecordType]
    /\ lease \in Nat
    /\ answered \in [Invocation -> [Checkpoints -> [Step -> [1 .. Tries -> Nat]]]]
    /\ due \in BOOLEAN
    /\ started \in 0 .. MaxInvocations
    /\ outcome \in {"none", "SUCCEEDED", "FAILED"}
    /\ wire \subseteq MessageType
    /\ worker \in [Invocation -> WorkerType]
    /\ directory \in {"none", "made", "durable"}
    /\ files \in [Invocation -> [Step -> {"none", "written", "synced", "durable"}]]
    /\ runner \in RunnerType
    /\ faults \in 0 .. MaxFaults

\* The result of a step is never lost once its record refers to a file: the
\* file is there with all of its content, whatever failed and restarted
\* (_payloads.py: the envelope is returned only after the write and directory
\* metadata have been synchronized).
PayloadsAreReadable ==
    \A s \in Offloaded : records[s].status = "SUCCEEDED" =>
        files[records[s].by][s] \in {"synced", "durable"}

\* What an invocation knows of a step: all but that a delay has ended since.
Knows(w, s) ==
    \/ w.seen[s] = records[s]
    \/ w.seen[s].status = "PENDING" /\ records[s].status = "READY"

\* An invocation that works has read every page and every answer: what it goes
\* by is what the service holds, as long as it is the last one, but for a delay
\* that ends while it is at work (invoke_workflow, the paging of its initial
\* state and the answers of the journal).
StateIsWhole ==
    \A n \in Invocation : Running(n) /\ n = started /\ outcome = "none" =>
        \A s \in Step : Knows(worker[n], s)

\* A request never loses its own lease: a try of a checkpoint is refused for its
\* token only when the service has started another invocation since, or the
\* execution is over (AsyncAws.request keeps the client token over its tries).
FencedMeansSuperseded ==
    \A m \in wire : Waits(m) /\ Stale(m) =>
        m.from # started \/ outcome # "none"

\* What the runner reports is the outcome of the execution with all of its
\* records as they are in the end (wait_for_result reads the status first).
ReportIsComplete ==
    runner.phase = "done" =>
        runner.status = outcome /\ outcome # "none" /\ runner.read = records

\* Once started, the execution has an outcome, and the runner ends.
ExecutionEnds == <>(outcome # "none" /\ runner.phase \in {"done", "error", "timeout"})
=============================================================================
