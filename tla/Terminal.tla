------------------------------ MODULE Terminal ------------------------------
(***************************************************************************)
(* One durable scope (_effects.py, scope_effect) over the invocations of an *)
(* execution: a plain child context, or a terminal scope (_finalize.py)     *)
(* whose body registers a compensation and a cleanup after each of its      *)
(* operations.                                                              *)
(*                                                                         *)
(* The body is replayed from the start in every invocation.  Each of its    *)
(* operations, and then each terminal action, takes the next position of    *)
(* the scope's cursor, and a record found at that position must be of the   *)
(* same identity.  A large result is stored in chunks before the cleanups   *)
(* run and the verdict is written.  A sibling of the scope may suspend the  *)
(* handler, which cancels the scope (close); the application may cancel it. *)
(*                                                                         *)
(* One task submits the scope's updates, one after the other; the journal   *)
(* makes them durable in that order and flushes them when it closes         *)
(* (Journal).  What a step does is abstracted to its records (Step).        *)
(***************************************************************************)
EXTENDS Naturals, SequencesExt, FiniteSetsExt

CONSTANTS
    Stages,          \* operations of the body
    Chunks,          \* chunks of a large result
    Configs,         \* the scopes considered
    MaxCrashes,      \* bound: crashes of an invocation
    MaxCuts,         \* bound: suspensions by a sibling
    MaxRetries,      \* bound: retries of terminal actions
    MaxInterrupts,   \* bound: retryable InvocationErrors of the body and the actions
    MaxFatal,        \* bound: permanent ones
    None

Stage == 1 .. Stages
Phases == {"COMPENSATION", "CLEANUP"}
Action == Phases \X Stage
Operation == Action \cup ({"BODY"} \X Stage)
Position == 1 .. 3 * Stages
\* The body raises at stage "failsAt", waits at stage "abandon" until the
\* application cancels it, or returns a result that may not be encodable.  Only
\* a terminal scope has a policy.
Config == [terminal : BOOLEAN, policy : SUBSET Phases, waits : SUBSET Stage,
           failsAt : Stage \cup {None}, encodes : BOOLEAN, large : BOOLEAN,
           siblings : BOOLEAN, abandon : Stage \cup {None}]

ASSUME TerminalAssumption ==
    /\ {Stages, Chunks} \subseteq Nat \ {0}
    /\ None \notin Nat /\ None \notin Operation
    /\ Configs \subseteq Config
    /\ \A w \in Configs : ~w.terminal => w.policy = {}
    /\ {MaxCrashes, MaxCuts, MaxRetries, MaxInterrupts, MaxFatal} \subseteq Nat

VARIABLES
    config,
    \* the invocation
    handler,         \* "off", "on", "closing", or "over" with the execution
    \* the scope's task
    pc, stage,
    next,            \* the cursor
    todo, cause,     \* the terminal actions left to run, and what called for them
    failed,          \* whether one of them has failed
    error, chunk,
    mailbox,         \* updates submitted and not yet durable
    \* the records
    scope, ops, chunks,
    \* budgets
    crashes, cuts, retries, interrupts, fatal

taskVars == <<pc, stage, next, todo, cause, failed, error, chunk>>
recordVars == <<scope, ops, chunks>>
budgetVars == <<crashes, cuts, retries, interrupts, fatal>>
vars == <<config, handler, taskVars, mailbox, recordVars, budgetVars>>

NoRecord == [what |-> None, status |-> "none"]
Ended == {"off", "done", "raised", "paused", "interrupted", "cancelled"}

Init ==
    /\ config \in Configs
    /\ handler = "off"
    /\ pc = "off" /\ stage = 1 /\ next = 1
    /\ todo = <<>> /\ cause = None /\ failed = FALSE
    /\ error = None /\ chunk = 1
    /\ mailbox = <<>>
    /\ scope = [status |-> "none", why |-> None]
    /\ ops = [p \in Position |-> NoRecord]
    /\ chunks = [k \in 1 .. Chunks |-> "none"]
    /\ crashes = 0 /\ cuts = 0 /\ retries = 0 /\ interrupts = 0 /\ fatal = 0

----------------------------------------------------------------------------
(* The journal                                                             *)

\* Ticket.write and Journal.commit: the update joins the mailbox.  The task
\* goes on when everything submitted is durable.
Write(update) == mailbox' = Append(mailbox, update)
Acked == mailbox = <<>>

ScopeUpdate(status, why) == [table |-> "scope", status |-> status, why |-> why]
OpUpdate(p, what, status) == [table |-> "ops", at |-> p, what |-> what, status |-> status]
ChunkUpdate(k, status) == [table |-> "chunks", at |-> k, status |-> status]

\* The service applies the oldest update.
Apply ==
    /\ mailbox # <<>>
    /\ LET u == Head(mailbox) IN
       /\ scope' = IF u.table = "scope" THEN [status |-> u.status, why |-> u.why] ELSE scope
       /\ ops' = IF u.table = "ops"
                 THEN [ops EXCEPT ![u.at] = [what |-> u.what, status |-> u.status]] ELSE ops
       /\ chunks' = IF u.table = "chunks" THEN [chunks EXCEPT ![u.at] = u.status] ELSE chunks
    /\ mailbox' = Tail(mailbox)
    /\ UNCHANGED <<config, handler, taskVars, budgetVars>>

----------------------------------------------------------------------------
(* Terminal actions (Actions.run)                                          *)

\* The actions the body has registered so far, in the order run takes them.
InReverse(phase) == [i \in 1 .. stage - 1 |-> <<phase, stage - i>>]

\* As if each phase ran in the order of registration.
ProgramForward(phases) ==
    LET forward(phase) == [i \in 1 .. stage - 1 |-> <<phase, i>>] IN
    (IF "COMPENSATION" \in phases THEN forward("COMPENSATION") ELSE <<>>)
        \o (IF "CLEANUP" \in phases THEN forward("CLEANUP") ELSE <<>>)

Program(phases) ==
    (IF "COMPENSATION" \in phases THEN InReverse("COMPENSATION") ELSE <<>>)
        \o (IF "CLEANUP" \in phases THEN InReverse("CLEANUP") ELSE <<>>)

Run(phases, why) ==
    /\ pc' = "acting" /\ todo' = Program(phases) /\ cause' = why /\ failed' = FALSE

\* scope_effect writes the verdict.
Settle(status, why) ==
    /\ pc' = "committing" /\ error' = why
    /\ Write(ScopeUpdate(status, why))

\* failed(error): the actions of a scope that has failed, or its FAIL at once.
Fail(why) ==
    IF config.terminal
    THEN Run(Phases, "failure") /\ error' = why /\ UNCHANGED mailbox
    ELSE Settle("FAILED", why) /\ UNCHANGED <<todo, cause, failed>>

----------------------------------------------------------------------------
(* The body                                                                *)

\* An invocation starts or resumes the scope, or replays its verdict.
Invoke ==
    /\ handler = "off"
    /\ handler' = "on"
    /\ stage' = 1 /\ next' = 1 /\ todo' = <<>> /\ cause' = None /\ failed' = FALSE
    /\ error' = scope.why /\ chunk' = 1
    /\ pc' = CASE scope.status = "SUCCEEDED" -> "done"
               [] scope.status = "FAILED" -> "raised"
               [] scope.status = "STARTED" -> "body"
               [] OTHER -> "starting"
    /\ IF scope.status = "none" THEN Write(ScopeUpdate("STARTED", None)) ELSE UNCHANGED mailbox
    /\ UNCHANGED <<config, recordVars, budgetVars>>

Started ==
    /\ pc = "starting" /\ Acked
    /\ pc' = "body"
    /\ UNCHANGED <<config, handler, stage, next, todo, cause, failed, error,
                   chunk, mailbox, recordVars, budgetVars>>

\* Cursor.reserve and Ticket.select: the record at the next position, if there
\* is one, must be of this operation.
Selects(what) == ops[next].what \in {None, what}

\* The body reaches its next operation, or raises there.
BodyReserves ==
    /\ pc = "body" /\ stage \in Stage /\ stage # config.abandon
    /\ IF stage = config.failsAt
       THEN Fail("body") /\ UNCHANGED next
       ELSE /\ next' = next + 1
            /\ IF Selects(<<"BODY", stage>>)
               THEN /\ pc' = "operating"
                    /\ UNCHANGED <<todo, cause, failed, error, mailbox>>
               ELSE Fail("identity")
    /\ UNCHANGED <<config, handler, stage, chunk, recordVars, budgetVars>>

\* The operation: START, then the wait's Pause or the step's SUCCEED.  When it
\* is complete the body registers its two actions.
BodyOperates ==
    /\ pc = "operating" /\ Acked
    /\ LET p == next - 1 IN
       \/ /\ ops[p].status = "none"
          /\ Write(OpUpdate(p, <<"BODY", stage>>, "STARTED"))
          /\ UNCHANGED <<pc, stage>>
       \/ /\ ops[p].status = "STARTED" /\ stage \in config.waits
          /\ pc' = "paused"
          /\ UNCHANGED <<stage, mailbox>>
       \/ /\ ops[p].status = "STARTED" /\ stage \notin config.waits
          /\ Write(OpUpdate(p, <<"BODY", stage>>, "SUCCEEDED"))
          /\ UNCHANGED <<pc, stage>>
       \/ /\ ops[p].status = "SUCCEEDED"
          /\ pc' = "body" /\ stage' = stage + 1
          /\ UNCHANGED mailbox
    /\ UNCHANGED <<config, handler, next, todo, cause, failed, error, chunk,
                   recordVars, budgetVars>>

\* The result is ready to be written: the cleanups come first.
Prepared ==
    IF config.terminal
    THEN Run({"CLEANUP"}, "success") /\ UNCHANGED <<error, mailbox>>
    ELSE Settle("SUCCEEDED", "value") /\ UNCHANGED <<todo, cause, failed>>

\* The body returns; its result is encoded and, if large, stored.
BodyReturns ==
    /\ pc = "body" /\ stage = Stages + 1
    /\ \/ ~config.encodes /\ Fail("prepare")
       \/ /\ config.encodes /\ config.large
          /\ pc' = "storing"
          /\ UNCHANGED <<todo, cause, failed, error, mailbox>>
       \/ config.encodes /\ ~config.large /\ Prepared
    /\ UNCHANGED <<config, handler, stage, next, chunk, recordVars, budgetVars>>

\* As if a chunk that has been started were taken for stored.
StoreAnyway ==
    /\ pc = "storing"
    /\ \/ /\ chunk <= Chunks /\ chunks[chunk] = "none"
          /\ pc' = "chunkStarting"
          /\ Write(ChunkUpdate(chunk, "STARTED"))
          /\ UNCHANGED <<todo, cause, failed, error, chunk>>
       \/ /\ chunk <= Chunks /\ chunks[chunk] # "none"
          /\ chunk' = chunk + 1
          /\ UNCHANGED <<pc, todo, cause, failed, error, mailbox>>
       \/ chunk > Chunks /\ Prepared /\ UNCHANGED chunk
    /\ UNCHANGED <<config, handler, stage, next, recordVars, budgetVars>>

\* Journal.store: a chunk that is there must hold this part of the payload, and
\* one that was only started holds nothing.
Store ==
    /\ pc = "storing"
    /\ \/ /\ chunk <= Chunks /\ chunks[chunk] = "none"
          /\ pc' = "chunkStarting"
          /\ Write(ChunkUpdate(chunk, "STARTED"))
          /\ UNCHANGED <<todo, cause, failed, error, chunk>>
       \/ /\ chunk <= Chunks /\ chunks[chunk] = "SUCCEEDED"
          /\ chunk' = chunk + 1
          /\ UNCHANGED <<pc, todo, cause, failed, error, mailbox>>
       \/ chunk <= Chunks /\ chunks[chunk] = "STARTED" /\ Fail("changed") /\ UNCHANGED chunk
       \/ chunk > Chunks /\ Prepared /\ UNCHANGED chunk
    /\ UNCHANGED <<config, handler, stage, next, recordVars, budgetVars>>

ChunkAcked ==
    /\ Acked
    /\ \/ /\ pc = "chunkStarting"
          /\ pc' = "chunkEnding"
          /\ Write(ChunkUpdate(chunk, "SUCCEEDED"))
          /\ UNCHANGED chunk
       \/ /\ pc = "chunkEnding"
          /\ pc' = "storing" /\ chunk' = chunk + 1
          /\ UNCHANGED mailbox
    /\ UNCHANGED <<config, handler, stage, next, todo, cause, failed, error,
                   recordVars, budgetVars>>

----------------------------------------------------------------------------
(* The actions                                                             *)

\* The next action takes its position; one that does not match the record there
\* counts as failed.
ActionReserves ==
    /\ pc = "acting" /\ todo # <<>>
    /\ next' = next + 1
    /\ IF Selects(Head(todo))
       THEN pc' = "actionOperating" /\ UNCHANGED <<todo, failed>>
       ELSE todo' = Tail(todo) /\ failed' = TRUE /\ UNCHANGED pc
    /\ UNCHANGED <<config, handler, stage, cause, error, chunk, mailbox,
                   recordVars, budgetVars>>

\* The action's step (step_effect): it runs when its START is durable, and
\* succeeds, fails for good or is retried in a later invocation.
ActionOperates ==
    /\ pc = "actionOperating" /\ Acked
    /\ LET p == next - 1
           write(status) == Write(OpUpdate(p, Head(todo), status))
       IN
       \/ /\ ops[p].status \in {"none", "READY"}
          /\ write("STARTED")
          /\ UNCHANGED <<pc, todo, failed, retries>>
       \/ /\ ops[p].status = "STARTED"
          /\ \E verdict \in {"SUCCEEDED", "FAILED"} : write(verdict)
          /\ UNCHANGED <<pc, todo, failed, retries>>
       \/ /\ ops[p].status = "STARTED" /\ retries < MaxRetries
          /\ write("PENDING") /\ retries' = retries + 1
          /\ UNCHANGED <<pc, todo, failed>>
       \/ /\ ops[p].status = "PENDING"
          /\ pc' = "paused"
          /\ UNCHANGED <<todo, failed, mailbox, retries>>
       \/ /\ ops[p].status \in {"SUCCEEDED", "FAILED"}
          /\ pc' = "acting" /\ todo' = Tail(todo)
          /\ failed' = (failed \/ ops[p].status = "FAILED")
          /\ UNCHANGED <<mailbox, retries>>
    /\ UNCHANGED <<config, handler, stage, next, cause, error, chunk,
                   recordVars, crashes, cuts, interrupts, fatal>>

\* As if the first failing action ended the run.
ActionsStopAtFailure ==
    /\ pc = "acting" /\ (todo = <<>> \/ failed)
    /\ \/ cause = "success" /\ ~failed /\ Settle("SUCCEEDED", "value")
       \/ cause = "success" /\ failed /\ Settle("FAILED", "actions")
       \/ cause = "failure" /\ Settle("FAILED", IF failed THEN "actions" ELSE error)
       \/ cause = "cancel" /\ pc' = "cancelled" /\ UNCHANGED <<error, mailbox>>
    /\ UNCHANGED <<config, handler, stage, next, todo, cause, failed, chunk,
                   recordVars, budgetVars>>

\* All actions have been tried.
ActionsEnd ==
    /\ pc = "acting" /\ todo = <<>>
    /\ \/ cause = "success" /\ ~failed /\ Settle("SUCCEEDED", "value")
       \/ cause = "success" /\ failed /\ Settle("FAILED", "actions")
       \/ cause = "failure" /\ Settle("FAILED", IF failed THEN "actions" ELSE error)
       \/ cause = "cancel" /\ pc' = "cancelled" /\ UNCHANGED <<error, mailbox>>
    /\ UNCHANGED <<config, handler, stage, next, todo, cause, failed, chunk,
                   recordVars, budgetVars>>

VerdictAcked ==
    /\ pc = "committing" /\ Acked
    /\ pc' = IF scope.status = "SUCCEEDED" THEN "done" ELSE "raised"
    /\ UNCHANGED <<config, handler, stage, next, todo, cause, failed, error,
                   chunk, mailbox, recordVars, budgetVars>>

----------------------------------------------------------------------------
(* Interruptions                                                           *)

\* As if a retryable InvocationError were a failure of the body.
InterruptAsFailure ==
    /\ interrupts < MaxInterrupts /\ interrupts' = interrupts + 1
    /\ \/ pc \in {"body", "operating"} /\ Fail("body")
       \/ /\ pc = "actionOperating" /\ pc' = "interrupted"
          /\ UNCHANGED <<todo, cause, failed, error, mailbox>>
    /\ UNCHANGED <<config, handler, stage, next, chunk, recordVars, crashes, cuts, retries,
                   fatal>>

\* A retryable InvocationError out of the body or out of an action: no verdict,
\* and the invocation is tried again.
Interrupt ==
    /\ interrupts < MaxInterrupts /\ interrupts' = interrupts + 1
    /\ pc \in {"body", "operating", "actionOperating"}
    /\ pc' = "interrupted"
    /\ UNCHANGED <<config, handler, stage, next, todo, cause, failed, error,
                   chunk, mailbox, recordVars, crashes, cuts, retries, fatal>>

\* A permanent one out of an action ends the run of the actions and fails the
\* scope.  (The body's is a failure like any other: failsAt.)
InterruptForGood ==
    /\ fatal < MaxFatal /\ fatal' = fatal + 1
    /\ pc = "actionOperating" /\ Settle("FAILED", "permanent")
    /\ UNCHANGED <<config, handler, stage, next, todo, cause, failed, chunk, recordVars,
                   crashes, cuts, retries, interrupts>>

\* As if cancellation were no exception to be handled.
CancelWithoutPolicy ==
    /\ pc' = IF pc \in Ended THEN pc ELSE "cancelled"
    /\ UNCHANGED <<todo, cause, failed>>

\* CancelledError at the task's await: in the body of a terminal scope the
\* policy says which actions run, anywhere else it ends the task.
CancelTask ==
    IF pc \in {"body", "operating"} /\ config.terminal
    THEN Run(config.policy, "cancel")
    ELSE /\ pc' = IF pc \in Ended THEN pc ELSE "cancelled"
         /\ UNCHANGED <<todo, cause, failed>>

\* The application cancels the scope: a group that has decided, for one.
Abandon ==
    /\ handler = "on" /\ pc = "body" /\ stage = config.abandon
    /\ CancelTask
    /\ UNCHANGED <<config, handler, stage, next, error, chunk, mailbox, recordVars, budgetVars>>

\* A sibling's Pause ends the handler, and close cancels what still runs.
Cut ==
    /\ config.siblings /\ handler = "on" /\ cuts < MaxCuts
    /\ handler' = "closing" /\ cuts' = cuts + 1
    /\ CancelTask
    /\ UNCHANGED <<config, stage, next, error, chunk, mailbox, recordVars,
                   crashes, retries, interrupts, fatal>>

\* The invocation returns: the scope has come to rest and the journal is
\* flushed.  It ends the execution unless something is left to do.
Leave ==
    /\ handler \in {"on", "closing"} /\ pc \in Ended /\ Acked
    /\ handler' = IF handler = "on" /\ pc \in {"done", "raised", "cancelled"}
                  THEN "over" ELSE "off"
    /\ pc' = IF handler' = "over" THEN pc ELSE "off"
    /\ UNCHANGED <<config, stage, next, todo, cause, failed, error, chunk,
                   mailbox, recordVars, budgetVars>>

\* The process dies and what it had not sent is lost.
Crash ==
    /\ handler \in {"on", "closing"} /\ crashes < MaxCrashes
    /\ crashes' = crashes + 1
    /\ handler' = "off" /\ pc' = "off" /\ mailbox' = <<>>
    /\ UNCHANGED <<config, stage, next, todo, cause, failed, error, chunk, recordVars,
                   cuts, retries, interrupts, fatal>>

\* As if only waits were resumed.
ElapseWaits(p) ==
    /\ handler = "off"
    /\ ops[p].status = "STARTED" /\ ops[p].what[1] = "BODY" /\ ops[p].what[2] \in config.waits
    /\ ops' = [ops EXCEPT ![p].status = "SUCCEEDED"]
    /\ UNCHANGED <<config, handler, taskVars, mailbox, scope, chunks, budgetVars>>

\* Time passes between invocations.
Elapse(p) ==
    /\ handler = "off"
    /\ \/ /\ ops[p].status = "STARTED" /\ ops[p].what[1] = "BODY"
          /\ ops[p].what[2] \in config.waits
          /\ ops' = [ops EXCEPT ![p].status = "SUCCEEDED"]
       \/ /\ ops[p].status = "PENDING"
          /\ ops' = [ops EXCEPT ![p].status = "READY"]
    /\ UNCHANGED <<config, handler, taskVars, mailbox, scope, chunks, budgetVars>>

TaskStep ==
    \/ Started \/ BodyReserves \/ BodyOperates \/ BodyReturns \/ Store \/ ChunkAcked
    \/ ActionReserves \/ ActionOperates \/ ActionsEnd \/ VerdictAcked

Next ==
    \/ Apply \/ Invoke \/ TaskStep \/ Leave
    \/ Interrupt \/ InterruptForGood \/ Abandon \/ Cut \/ Crash
    \/ \E p \in Position : Elapse(p)

Spec == Init /\ [][Next]_vars

\* The loop runs the task, the journal sends, and the driver invokes again what
\* has suspended, once it has moved the clock to a pending timer: a timer that
\* is pending between invocation after invocation fires.
FairSpec ==
    /\ Spec
    /\ WF_vars(Apply) /\ WF_vars(Invoke) /\ WF_vars(TaskStep)
    /\ WF_vars(Abandon) /\ WF_vars(Leave)
    /\ \A p \in Position : SF_vars(Elapse(p))

----------------------------------------------------------------------------
(* Properties                                                              *)

Causes == {"body", "prepare", "changed", "identity", "actions", "permanent"}
Final == {"SUCCEEDED", "FAILED"}

\* Every variable has its type; a verdict is written with the reason for it.
TypeOK ==
    /\ config \in Config
    /\ handler \in {"off", "on", "closing", "over"}
    /\ pc \in Ended \cup {"starting", "body", "operating", "storing", "chunkStarting",
                        "chunkEnding", "acting", "actionOperating", "committing"}
    /\ stage \in 1 .. Stages + 1
    /\ next \in 1 .. 3 * Stages + 1
    /\ todo \in Seq(Action)
    /\ cause \in {None, "success", "failure", "cancel"}
    /\ failed \in BOOLEAN
    /\ chunk \in 1 .. Chunks + 1
    /\ scope \in [status : {"none", "STARTED"}, why : {None}]
                \cup [status : {"SUCCEEDED"}, why : {"value"}]
                \cup [status : {"FAILED"}, why : Causes]
    /\ ops \in [Position -> [what : Operation, status : {"STARTED", "PENDING", "READY"} \cup Final]
                              \cup {NoRecord}]
    /\ chunks \in [1 .. Chunks -> {"none", "STARTED", "SUCCEEDED"}]

Acts(p) == ops[p].what \in Action
Ran(phase, status) == {i \in Stage : \E p \in Position :
                           ops[p].what = <<phase, i>> /\ ops[p].status \in status}

\* "Compensation runs before cleanup; each phase executes actions sequentially
\* in reverse registration order", over all the invocations that take part.
ActionsInOrder ==
    \A p, q \in Position : p < q /\ Acts(p) /\ Acts(q) =>
        /\ ops[p].status \in Final
        /\ \/ ops[p].what[1] = "COMPENSATION" /\ ops[q].what[1] = "CLEANUP"
           \/ ops[p].what[1] = ops[q].what[1] /\ ops[p].what[2] > ops[q].what[2]

\* A verdict stands on its actions: a success has run every cleanup and no
\* compensation; a failure has run both for each operation the body had
\* completed, unless only a cleanup of a successful body failed.
VerdictIsBacked ==
    config.terminal /\ scope.status \in Final /\ scope.why # "permanent" =>
        LET undone == Ran("COMPENSATION", Final)
            cleaned == Ran("CLEANUP", Final)
        IN
        /\ \A p \in Position : Acts(p) => ops[p].status \in Final
        /\ scope.status = "SUCCEEDED" => undone = {} /\ Ran("CLEANUP", {"SUCCEEDED"}) = Stage
        /\ scope.status = "FAILED" =>
              \/ undone = cleaned /\ \E m \in 0 .. Stages : cleaned = 1 .. m
              \/ scope.why = "actions" /\ undone = {} /\ cleaned = Stage

\* A scope the application has cancelled has run what its policy asks for, for
\* each operation the body had completed, and nothing else.
PolicyIsApplied ==
    handler = "over" /\ pc = "cancelled" =>
        \A phase \in Phases :
            Ran(phase, Final) = IF phase \in config.policy THEN 1 .. config.abandon - 1 ELSE {}

\* However a scope ends, by a verdict or by a cancellation of the application,
\* it has run the actions that this end calls for.
EndIsBacked == VerdictIsBacked /\ PolicyIsApplied

\* "Success: compensation does not run", nor after a suspension, a crash, a
\* retryable interruption or a cancellation the policy leaves out: the work of
\* a body that never fails is not undone.
UndoOnlyFailures ==
    Ran("COMPENSATION", {"STARTED", "PENDING", "READY"} \cup Final) # {} =>
        \/ config.failsAt # None \/ ~config.encodes \/ "COMPENSATION" \in config.policy

\* The manifest of a large result lists chunks that are there to be restored
\* ("A completed result references a missing journal chunk" is never raised).
ManifestIsWhole ==
    scope.status = "SUCCEEDED" /\ config.large =>
        \A k \in 1 .. Chunks : chunks[k] = "SUCCEEDED"

\* The execution ends, whatever is retried, suspended, cut short or crashes.
ScopeEnds == <>(handler = "over")

\* "Durable suspension [...] never become cancellation cleanup": no terminal
\* action is called for by an invocation that only suspends.
SuspensionRunsNothing ==
    pc = "actionOperating" /\ cause = "cancel" => handler # "closing"
=============================================================================
