------------------------------ MODULE Workflow ------------------------------
(***************************************************************************)
(* One durable execution, from its first invocation to its outcome: the     *)
(* handler and the effects of its operations (_effects.py) over the         *)
(* identities a cursor hands out (_journal.py), replayed from the records   *)
(* at each invocation.                                                      *)
(*                                                                         *)
(* An operation is known by its address: the positions of the cursors from  *)
(* the root scope down to it, which the SHA-256 of the code stands for.     *)
(* A checkpoint is one step here: sent, applied by the service, answered    *)
(* with every record (Journal has its parts).  A crash may fall between any *)
(* two steps, timers and answers may come at any moment, and the tasks of   *)
(* one invocation interleave.                                               *)
(***************************************************************************)
EXTENDS Programs

CONSTANTS
    Workflows,      \* the bodies of the handlers under study
    Bodies,         \* of each handler: its body and those of the children in it
    MaxCrashes      \* bound: processes lost at a moment of nobody's choosing

ASSUME WorkflowAssumption ==
    /\ MaxCrashes \in Nat
    /\ \A handler \in Workflows :
          /\ handler \in Bodies[handler]
          /\ \A body \in Bodies[handler] : IsBody(body, Bodies[handler])

VARIABLES
    program,        \* the handler's body
    records,        \* the service's records, by address
    view,           \* the invocation's journal.entries: as of its last answer
    tasks,          \* the invocation's tasks, by address; the root is <<>>
    journal,        \* "open", or "failed": a checkpoint was refused
    invocation,     \* "due", "running", "suspended", "lost", "over"
    stirred,        \* something ended since the records were handed out
    outcome,        \* "none", "ok", or the error the execution failed with
    crashes,
    \* history
    asked,          \* by address: the places of the program that reserved it, and
                    \* the operation each of them starts
    told,           \* by address: the outcomes its task has had
    logged          \* the log statements that were emitted

serviceVars == <<records, outcome, stirred>>
invocationVars == <<view, tasks, journal, invocation>>
vars == <<program, serviceVars, invocationVars, crashes, asked, told, logged>>

\* A map from addresses, and what is added to it or replaced in it.
Only(a, value) == [b \in {a} |-> value]
With(map, added) ==
    [b \in DOMAIN map \cup DOMAIN added |->
        IF b \in DOMAIN added THEN added[b] ELSE map[b]]

Root == <<>>
Parent(a) == SubSeq(a, 1, Len(a) - 1)
Final(status) == status \in {"SUCCEEDED", "FAILED"}
\* What an address without a record reads as.
Absent == [op |-> "none", status |-> "none", attempt |-> 0, error |-> "none",
           parent |-> Root]
In(map, a) == IF a \in DOMAIN map THEN map[a] ELSE Absent
Seen(a) == In(view, a)

\* A task: what it runs, where it is, and for a scope its body, its cursor and
\* what it awaits.
Task(statement, parent) ==
    [stmt |-> statement, parent |-> parent, phase |-> "begin", out |-> "none",
     pc |-> 1, attempt |-> 1, handles |-> <<>>, awaits |-> {}, woken |-> "none",
     entered |-> FALSE, cursor |-> FALSE, next |-> 1, remaining |-> {},
     replaying |-> FALSE]

\* The records this scope's operations name as their parent.
Persisted(a) == IF a # Root /\ tasks[a].stmt.virtual THEN tasks[a].parent ELSE a

Init ==
    /\ program \in Workflows
    /\ records = <<>>
    /\ view = <<>>
    /\ tasks = <<>>
    /\ journal = "open"
    /\ invocation = "due"
    /\ stirred = FALSE
    /\ outcome = "none"
    /\ crashes = 0
    /\ asked = <<>>
    /\ told = <<>>
    /\ logged = {}

----------------------------------------------------------------------------
(* Invocations                                                             *)

\* invoke_workflow: the journal takes the records, and the handler starts.
InvokeWorkflow ==
    /\ \/ invocation \in {"due", "lost"}
       \/ invocation = "suspended" /\ stirred
    /\ invocation' = "running"
    /\ stirred' = FALSE
    /\ view' = records
    /\ journal' = "open"
    /\ tasks' = Only(Root, [Task(Child(program), Root) EXCEPT
                               !.phase = "run",
                               !.entered = records # <<>>,
                               !.replaying = records # <<>>])
    /\ UNCHANGED <<program, records, outcome, crashes, asked, told, logged>>

\* The process is gone, and with it all but the records.
Lost ==
    /\ invocation' = "lost"
    /\ tasks' = <<>>
    /\ UNCHANGED <<program, serviceVars, view, journal, asked, told, logged>>

Crash ==
    /\ invocation = "running" /\ crashes < MaxCrashes
    /\ crashes' = crashes + 1
    /\ Lost

----------------------------------------------------------------------------
(* Tasks and checkpoints                                                   *)

Running(a, phase) ==
    invocation = "running" /\ a \in DOMAIN tasks /\ tasks[a].phase = phase

Kind(a) == tasks[a].stmt.op

\* The task of a is done.  The scope that awaits it wakes with the first
\* outcome that is not a success.
Done(ts, a, out) ==
    LET ended == [ts EXCEPT ![a].phase = "done", ![a].out = out]
        owner == Parent(a)
    IN IF out # "ok" /\ a \in ts[owner].awaits /\ ts[owner].woken = "none"
       THEN [ended EXCEPT ![owner].woken = out]
       ELSE ended

Tell(a, out) ==
    told' = With(told, Only(a, {out} \cup IF a \in DOMAIN told THEN told[a] ELSE {}))

Deliver(a, out) ==
    /\ tasks' = Done(tasks, a, out)
    /\ Tell(a, out)
    /\ UNCHANGED <<program, serviceVars, view, journal, invocation, crashes,
                   asked, logged>>

\* What the service accepts: a parent that is in progress, and an operation
\* that is not there yet, or is where the update expects it.
Accepts(a, parent, action) ==
    /\ parent # Root => In(records, parent).status = "STARTED"
    /\ In(records, a).status \in
          IF action = "START" THEN {"none", "READY"} ELSE {"STARTED", "READY"}

\* Ticket.write: the records after an update of a, and the end of replay for a
\* scope that has consumed what it had.
Written(a, action, record) ==
    LET owner == Parent(a)
        parent == Persisted(owner)
    IN /\ journal = "open" /\ Accepts(a, parent, action)
       /\ records' = With(records, Only(a, [record EXCEPT !.parent = parent]))
       /\ view' = records'
       /\ UNCHANGED <<program, outcome, stirred, journal, invocation, crashes, asked,
                      logged>>

Consumed(a) ==
    LET owner == Parent(a)
    IN [tasks EXCEPT ![owner].replaying = @ /\ tasks[owner].remaining # {}]

\* The service refuses the update, or refused one before: the journal fails,
\* and the write raises InvalidStateError.
Refused(a, action) ==
    /\ journal = "failed" \/ ~Accepts(a, Persisted(Parent(a)), action)
    /\ journal' = "failed"
    /\ tasks' = Done(tasks, a, "state")
    /\ Tell(a, "state")
    /\ UNCHANGED <<program, serviceVars, view, invocation, crashes, asked, logged>>

\* An update after which the task is done with out.
Checkpoint(a, action, record, out) ==
    \/ /\ Written(a, action, record)
       /\ tasks' = Done(Consumed(a), a, out)
       /\ Tell(a, out)
    \/ Refused(a, action)

\* An update after which the task goes on.
StartWith(a, record) ==
    \/ /\ Written(a, "START", record)
       /\ tasks' = [Consumed(a) EXCEPT ![a].phase = "run"]
       /\ UNCHANGED told
    \/ Refused(a, "START")

Record(a, status, attempt, error) ==
    [op |-> Kind(a), status |-> status, attempt |-> attempt, error |-> error,
     parent |-> Root]
Started(a) == Record(a, "STARTED", Seen(a).attempt, "none")

----------------------------------------------------------------------------
(* Steps: step_effect                                                      *)

IsStep(a) == Kind(a) \in {"step", "condition"}

\* Faulty variant of StepReplays: a record without a payload is a success.
StepReplaysAsSuccess(a) ==
    /\ Running(a, "begin") /\ IsStep(a)
    /\ Final(Seen(a).status)
    /\ Deliver(a, "ok")

\* A record with an outcome: the success also ends the replay of a scope that
\* has consumed what it had.
StepReplays(a) ==
    /\ Running(a, "begin") /\ IsStep(a)
    /\ Final(Seen(a).status)
    /\ LET out == IF Seen(a).status = "SUCCEEDED" THEN "ok" ELSE Seen(a).error
       IN /\ tasks' = Done(IF out = "ok" THEN Consumed(a) ELSE tasks, a, out)
          /\ Tell(a, out)
    /\ UNCHANGED <<program, serviceVars, view, journal, invocation, crashes,
                   asked, logged>>

\* Faulty variant of StepPauses: a step whose delay is over pauses again.
StepPausesForever(a) ==
    /\ Running(a, "begin") /\ IsStep(a)
    /\ Seen(a).status \in {"PENDING", "READY"}
    /\ Deliver(a, "pause")

StepPauses(a) ==
    /\ Running(a, "begin") /\ IsStep(a)
    /\ Seen(a).status = "PENDING"
    /\ Deliver(a, "pause")

StepStarts(a) ==
    /\ Running(a, "begin") /\ IsStep(a)
    /\ Seen(a).status \in {"none", "READY"}
    /\ StartWith(a, Started(a))

\* An attempt failed: RETRY while the policy allows, else FAIL.  The failure is
\* raised as its record would be, but for an interruption and for the check of
\* a condition, which the handler sees as they are.
AttemptFails(a, attempt, error) ==
    IF Kind(a) = "step" /\ attempt < tasks[a].stmt.max
    THEN Checkpoint(a, "RETRY", Record(a, "PENDING", attempt, "none"), "pause")
    ELSE Checkpoint(a, "FAIL", Record(a, "FAILED", attempt, Recorded(error)),
                    IF Kind(a) = "condition" \/ error = "interrupted"
                    THEN error ELSE Recorded(error))

\* A START without an end: run the body again, or for an at-most-once step
\* count the attempt as interrupted.
StepResumes(a) ==
    /\ Running(a, "begin") /\ IsStep(a)
    /\ Seen(a).status = "STARTED"
    /\ IF tasks[a].stmt.once
       THEN AttemptFails(a, Seen(a).attempt + 1, "interrupted")
       ELSE /\ tasks' = [tasks EXCEPT ![a].phase = "run"]
            /\ UNCHANGED <<program, serviceVars, view, journal, invocation,
                           crashes, asked, told, logged>>

\* How the body ends.  Errors of the framework pass without a checkpoint, but
\* for WaitForConditionError.
StepRuns(a) ==
    /\ Running(a, "run") /\ IsStep(a)
    /\ LET attempt == Seen(a).attempt + 1
           run == RunOf(tasks[a].stmt, attempt)
           exits == \/ run = "exit"
                    \/ run = "exit_if_new" /\ ~tasks[Parent(a)].entered
           end == IF run = "exit_if_new" THEN "ok" ELSE run
       IN \/ exits /\ Lost /\ UNCHANGED crashes
          \/ ~exits /\ end = "ok"
             /\ Checkpoint(a, "SUCCEED", Record(a, "SUCCEEDED", attempt, "none"), "ok")
          \/ ~exits /\ end = "again"
             /\ Checkpoint(a, "RETRY", Record(a, "PENDING", attempt, "none"), "pause")
          \/ ~exits /\ end \in InvocationErrors \cup (ExecutionErrors \ {"condition"})
             /\ Deliver(a, end)
          \/ ~exits /\ end \in Others \cup {"condition"}
             /\ AttemptFails(a, attempt, end)

----------------------------------------------------------------------------
(* Waits, chained invocations and callbacks                                *)

\* Faulty variant of ExternalStarts: it suspends before anything is recorded.
ExternalStartsUnrecorded(a) ==
    /\ Running(a, "begin") /\ Kind(a) \in {"wait", "invoke"}
    /\ Seen(a).status = "none"
    /\ Deliver(a, "pause")

\* wait_effect and invoke_effect: START, and then nothing to do but suspend
\* until the record has an end.
ExternalStarts(a) ==
    /\ Running(a, "begin") /\ Kind(a) \in {"wait", "invoke"}
    /\ Seen(a).status = "none"
    /\ Checkpoint(a, "START", Started(a), "pause")

ExternalReplays(a) ==
    /\ Running(a, "begin") /\ Kind(a) \in {"wait", "invoke"}
    /\ Seen(a).status # "none"
    /\ Deliver(a, CASE Seen(a).status = "SUCCEEDED" -> "ok"
                    [] Seen(a).status = "FAILED" -> Seen(a).error
                    [] OTHER -> "pause")

\* callback_effect: the handle is there as soon as the record is.
CallbackBegins(a) ==
    /\ Running(a, "begin") /\ Kind(a) = "callback"
    /\ IF Seen(a).status = "none"
       THEN Checkpoint(a, "START", Started(a), "ok")
       ELSE Deliver(a, "ok")

\* Callback.result, which reads the journal and no ticket.
ResultOf(handle) ==
    CASE Seen(handle).status = "SUCCEEDED" -> "ok"
      [] Seen(handle).status = "FAILED" -> Seen(handle).error
      [] OTHER -> "pause"

----------------------------------------------------------------------------
(* Scopes: scope_effect                                                    *)

IsScope(a) == Kind(a) = "child"

\* Faulty variant of ScopeReplays: every final record is a result.
ScopeReplaysResult(a) ==
    /\ Running(a, "begin") /\ IsScope(a)
    /\ Final(Seen(a).status)
    /\ Deliver(a, "ok")

ScopeReplays(a) ==
    /\ Running(a, "begin") /\ IsScope(a)
    /\ Final(Seen(a).status)
    /\ Deliver(a, IF Seen(a).status = "SUCCEEDED" THEN "ok" ELSE Seen(a).error)

\* The child's replay state is that of its own record, before START writes it.
ScopeStarts(a) ==
    LET known == Seen(a).status # "none"
        entered == [tasks EXCEPT ![a].entered = known, ![a].replaying = known]
    IN /\ Running(a, "begin") /\ IsScope(a)
       /\ ~Final(Seen(a).status)
       /\ IF known \/ tasks[a].stmt.virtual
          THEN /\ tasks' = [entered EXCEPT ![a].phase = "run"]
               /\ UNCHANGED <<program, serviceVars, view, journal, invocation,
                              crashes, asked, told, logged>>
          ELSE StartWith(a, Started(a))

\* The end of an invocation by its handler: returned, suspended, failed, or
\* interrupted by an error that asks for another one.
HandlerEnds(out) ==
    /\ invocation' = CASE out = "pause" -> "suspended"
                       [] out \in Retryable -> "lost"
                       [] OTHER -> "over"
    /\ outcome' = IF out \in {"pause"} \cup Retryable THEN outcome ELSE out
    /\ tasks' = <<>>
    /\ UNCHANGED <<program, records, stirred, view, journal, crashes, asked, told,
                   logged>>

\* Faulty variant of ScopeEnds: it takes a suspension for a failure of its body.
ScopeEndsSuspended(a, out) ==
    LET raised == IF out \in InvocationErrors \cup ExecutionErrors \cup {"pause"} THEN out
                  ELSE Recorded(out)
    IN CASE a = Root -> HandlerEnds(out)
         [] a # Root /\ out = "ok" ->
              IF tasks[a].stmt.virtual THEN Deliver(a, "ok")
              ELSE Checkpoint(a, "SUCCEED", Record(a, "SUCCEEDED", 0, "none"), "ok")
         [] OTHER ->
              IF tasks[a].stmt.virtual \/ out \in Retryable THEN Deliver(a, raised)
              ELSE Checkpoint(a, "FAIL", Record(a, "FAILED", 0, "callable"), raised)

\* scope_effect from the end of the body: its record, and what it raises.
ScopeEnds(a, out) ==
    LET raised == IF out \in InvocationErrors \cup ExecutionErrors THEN out
                  ELSE Recorded(out)
    IN CASE a = Root -> HandlerEnds(out)
         [] a # Root /\ out = "pause" -> Deliver(a, out)
         [] a # Root /\ out = "ok" ->
              IF tasks[a].stmt.virtual THEN Deliver(a, "ok")
              ELSE Checkpoint(a, "SUCCEED", Record(a, "SUCCEEDED", 0, "none"), "ok")
         [] OTHER ->
              IF tasks[a].stmt.virtual \/ out \in Retryable THEN Deliver(a, raised)
              ELSE Checkpoint(a, "FAIL", Record(a, "FAILED", 0, Recorded(out)), raised)

----------------------------------------------------------------------------
(* The bodies of the handler and of its children                           *)

Statement(a) == tasks[a].stmt.body[tasks[a].pc]
Ready(a) == Running(a, "run") /\ IsScope(a) /\ tasks[a].pc <= Len(tasks[a].stmt.body)

\* Cursor.reserve and Ticket.select for each operation in turn, and a task for
\* each.  The first reservation makes the cursor: remaining is what the journal
\* holds under the same parent.  The scope then awaits them in its body, or backs
\* off from an attempt at it; or the operation after them is refused, its position
\* taken, and nobody awaits what was started.
Launch(a, operations, phase) ==
    LET scope == tasks[a]
        count == Len(operations)
        taken == IF phase = "refused" THEN count + 1 ELSE count
        part(b) == b[Len(b)] - scope.next + 1
        reserved == {Append(a, scope.next + i - 1) : i \in 1 .. count}
        held == IF scope.cursor THEN scope.remaining
                ELSE {b \in DOMAIN view : view[b].parent = Persisted(a)}
        replays == (IF scope.cursor THEN scope.replaying ELSE held # {})
                   /\ reserved \subseteq DOMAIN view
        launched == [scope EXCEPT
                        !.phase = phase, !.awaits = reserved, !.woken = "none",
                        !.cursor = TRUE, !.next = @ + taken,
                        !.remaining = held \ reserved, !.replaying = replays]
        born == [b \in reserved |-> Task(operations[part(b)], Persisted(a))]
        place(b) == [phase |-> IF phase = "refused" THEN "await" ELSE phase,
                     attempt |-> scope.attempt, pc |-> scope.pc,
                     part |-> part(b), operation |-> operations[part(b)]]
        before(b) == IF b \in DOMAIN asked THEN asked[b] ELSE {}
    IN /\ tasks' = With([tasks EXCEPT ![a] = launched], born)
       /\ asked' = With(asked, [b \in reserved |-> before(b) \cup {place(b)}])

\* A record of another kind under the address: select raises.
Changes(a, operation, position) ==
    LET b == Append(a, position) IN b \in DOMAIN view /\ view[b].op # operation.op
Changed(a, operations) ==
    \E i \in 1 .. Len(operations) : Changes(a, operations[i], tasks[a].next + i - 1)

\* The handler's code goes on: after a success, or in the except clause of a
\* try that catches the error.
Proceed(a) == [tasks EXCEPT ![a].phase = "run", ![a].pc = @ + 1, ![a].awaits = {},
                          ![a].woken = "none"]

\* with_retry: an error that is not an interruption of the invocation, while
\* attempts are left, is followed by a wait on the same cursor.
Retries(a, error) ==
    /\ error \notin InvocationErrors \cup {"pause", "ok"}
    /\ tasks[a].stmt.tries > tasks[a].attempt
    /\ tasks[a].pc <= Len(tasks[a].stmt.body)

\* The statement at pc raised, paused, or ended the body.
Leaves(a, out) ==
    IF a # Root /\ Retries(a, out)
    THEN /\ tasks' = [tasks EXCEPT ![a].phase = "back_off"]
         /\ UNCHANGED <<program, serviceVars, view, journal, invocation, crashes,
                        asked, told, logged>>
    ELSE ScopeEnds(a, out)

\* The wait of with_retry before the next attempt; refused, it ends the scope.
BackOff(a) ==
    /\ Running(a, "back_off")
    /\ IF Changed(a, <<Wait>>)
       THEN ScopeEnds(a, "state")
       ELSE /\ Launch(a, <<Wait>>, "backing_off")
            /\ UNCHANGED <<program, serviceVars, view, journal, invocation, crashes,
                           told, logged>>

\* A statement that starts operations: all of them, or those before the first that
\* is refused.
Launches(a) ==
    /\ Ready(a) /\ Statement(a).op \notin {"result", "raise", "log"}
    /\ LET operations == Operations(Statement(a))
           all == Len(operations)
       IN \E n \in 0 .. all :
             LET before == SubSeq(operations, 1, n)
             IN /\ ~Changed(a, before)
                /\ n < all => Changes(a, operations[n + 1], tasks[a].next + n)
                /\ Launch(a, before, IF n < all THEN "refused" ELSE "await")
    /\ UNCHANGED <<program, serviceVars, view, journal, invocation, crashes, told,
                   logged>>

\* What the awaited operations came to, when the handler can tell: a gather
\* raises the first error, and has a value when all have.
Awaited(a) ==
    IF tasks[a].woken # "none" THEN tasks[a].woken
    ELSE IF \A b \in tasks[a].awaits : tasks[b].phase = "done" THEN "ok"
    ELSE "none"

\* A callback handed out is one the body may await later.
Handed(a) ==
    IF Statement(a).op = "callback"
    THEN [Proceed(a) EXCEPT ![a].handles = @ \o <<CHOOSE b \in tasks[a].awaits : TRUE>>]
    ELSE Proceed(a)

\* What the statement came to, in the body.
Takes(a, out) ==
    IF out \in {"ok"} \cup Statement(a).catch
    THEN /\ tasks' = IF out = "ok" THEN Handed(a) ELSE Proceed(a)
         /\ UNCHANGED <<program, serviceVars, view, journal, invocation, crashes,
                        asked, told, logged>>
    ELSE Leaves(a, out)

\* The await returns or raises; or the operations could not all be started.
Resumes(a) ==
    \E phase \in {"await", "refused"} :
        LET out == IF phase = "refused" THEN "state" ELSE Awaited(a)
        IN Running(a, phase) /\ out # "none" /\ Takes(a, out)

\* Faulty variant of Again: each attempt has a cursor of its own.
AgainFromStart(a) ==
    /\ Running(a, "backing_off")
    /\ Awaited(a) # "none"
    /\ IF Awaited(a) = "ok"
       THEN /\ tasks' = [tasks EXCEPT ![a].phase = "run", ![a].pc = 1, ![a].next = 1,
                                      ![a].attempt = @ + 1, ![a].handles = <<>>,
                                      ![a].awaits = {}, ![a].woken = "none"]
            /\ UNCHANGED <<program, serviceVars, view, journal, invocation, crashes,
                           asked, told, logged>>
       ELSE ScopeEnds(a, Awaited(a))

\* The backoff is over: the next attempt runs the body from its start.
Again(a) ==
    /\ Running(a, "backing_off")
    /\ Awaited(a) # "none"
    /\ IF Awaited(a) = "ok"
       THEN /\ tasks' = [tasks EXCEPT ![a].phase = "run", ![a].pc = 1,
                                      ![a].attempt = @ + 1, ![a].handles = <<>>,
                                      ![a].awaits = {}, ![a].woken = "none"]
            /\ UNCHANGED <<program, serviceVars, view, journal, invocation, crashes,
                           asked, told, logged>>
       ELSE ScopeEnds(a, Awaited(a))

\* A statement that starts nothing: reading a callback, or raising.
Reads(a) ==
    /\ Ready(a) /\ Statement(a).op \in {"result", "raise"}
    /\ LET s == Statement(a)
           out == IF s.op = "raise" THEN s.error ELSE ResultOf(tasks[a].handles[s.of])
       IN IF out \in {"ok"} \cup s.catch
          THEN /\ tasks' = Proceed(a)
               /\ UNCHANGED <<program, serviceVars, view, journal, invocation,
                              crashes, asked, told, logged>>
          ELSE Leaves(a, out)

\* A log statement: ReplayFilter drops it while its scope replays.
Logs(a) ==
    /\ Ready(a) /\ Statement(a).op = "log"
    /\ tasks' = Proceed(a)
    /\ logged' = IF tasks[a].replaying THEN logged
                 ELSE logged \cup {<<a, tasks[a].pc>>}
    /\ UNCHANGED <<program, serviceVars, view, journal, invocation, crashes, asked,
                   told>>

Returns(a) ==
    /\ Running(a, "run") /\ IsScope(a)
    /\ tasks[a].pc > Len(tasks[a].stmt.body)
    /\ ScopeEnds(a, "ok")

----------------------------------------------------------------------------
(* The world outside                                                       *)

Update(a, status, error) ==
    /\ invocation # "over"
    /\ records' = [records EXCEPT ![a].status = status, ![a].error = error]
    /\ stirred' = TRUE
    /\ UNCHANGED <<program, outcome, invocationVars, crashes, asked, told, logged>>

\* A wait is over, or the delay before a retry.
Elapses(a) ==
    /\ a \in DOMAIN records
    /\ \/ /\ records[a].op = "wait" /\ records[a].status = "STARTED"
          /\ Update(a, "SUCCEEDED", "none")
       \/ /\ records[a].op \in {"step", "condition"} /\ records[a].status = "PENDING"
          /\ Update(a, "READY", "none")

\* A callback is completed, fails or times out; a chained invocation ends, and the
\* error of one that fails is raised as what its metadata says (raise_record).
Answers(a) ==
    /\ a \in DOMAIN records
    /\ records[a].op \in {"callback", "invoke"} /\ records[a].status = "STARTED"
    /\ \/ Update(a, "SUCCEEDED", "none")
       \/ \E error \in IF records[a].op = "callback" THEN {"callback"}
                       ELSE {e \in Errors : Recorded(e) = e} : Update(a, "FAILED", error)

----------------------------------------------------------------------------

Effect(a) ==
    \/ StepReplays(a) \/ StepPauses(a) \/ StepStarts(a) \/ StepResumes(a)
    \/ StepRuns(a)
    \/ ExternalStarts(a) \/ ExternalReplays(a) \/ CallbackBegins(a)
    \/ ScopeReplays(a) \/ ScopeStarts(a)
    \/ Launches(a) \/ BackOff(a) \/ Resumes(a) \/ Again(a) \/ Reads(a) \/ Logs(a)
    \/ Returns(a)

World == \E a \in DOMAIN records : Elapses(a) \/ Answers(a)
Work == \E a \in DOMAIN tasks : Effect(a)
Over == invocation = "over" /\ UNCHANGED vars

Next == InvokeWorkflow \/ Crash \/ Work \/ World \/ Over

\* The event loop runs a ready task, the service invokes an execution with
\* something to do, timers fire and callbacks and invocations are answered.
Spec == Init /\ [][Next]_vars
FairSpec == Spec /\ WF_vars(InvokeWorkflow) /\ WF_vars(Work) /\ WF_vars(World)

----------------------------------------------------------------------------
(* Properties                                                              *)

Statuses == {"STARTED", "PENDING", "READY", "SUCCEEDED", "FAILED"}
Outcomes == {"ok", "pause"} \cup Errors

TypeOK ==
    /\ \A a \in DOMAIN records : /\ records[a].status \in Statuses
                                 /\ records[a].error \in {"none"} \cup Errors
                                 /\ records[a].attempt \in Nat
    /\ DOMAIN view \subseteq DOMAIN records
    /\ \A a \in DOMAIN tasks :
          /\ tasks[a].phase \in {"begin", "run", "await", "refused", "back_off",
                               "backing_off", "done"}
          /\ tasks[a].out \in {"none"} \cup Outcomes
          /\ tasks[a].awaits \subseteq DOMAIN tasks
    /\ invocation \in {"due", "running", "suspended", "lost", "over"}
    /\ outcome \in {"none", "ok"} \cup Errors
    /\ (outcome # "none") = (invocation = "over")

\* An address stands for one place of the program and one operation, the same
\* attempt of a with_retry included, whatever crashed and however often it replayed: no
\* operation ever reads the record of another (_journal.py, Cursor.reserve;
\* _effects.py, with_retry counts its attempts anew in every invocation).
OneAddressOnePlace == \A a \in DOMAIN asked : Cardinality(asked[a]) = 1

\* Once an operation has had an outcome, every later invocation gives the
\* handler the same: a success stays one, and a failure comes back as the class
\* its record is raised with (_effects.py, error_record and raise_record).
OutcomesAreStable ==
    \A a \in DOMAIN told :
        Cardinality({IF o = "ok" THEN o ELSE Recorded(o) : o \in told[a] \ {"pause"}}) <= 1

\* An invocation that answers PENDING leaves something that will bring the next
\* one: a timer, an open callback or invocation, or an end it has not read.
\* The driver fails the execution otherwise (_testing.py, _drive).
PendingIsBacked ==
    invocation = "suspended" =>
        \/ stirred
        \/ \E a \in DOMAIN records :
              \/ records[a].status = "PENDING"
              \/ /\ records[a].status = "STARTED"
                 /\ records[a].op \in {"wait", "callback", "invoke"}

\* A scope whose record is final has no operation in progress under it but a
\* callback nobody reads: what it awaited is over, and the service would refuse
\* the end of anything else (_effects.py, scope_effect; _testing.py, transact).
NothingOutlivesItsScope ==
    \A a \in DOMAIN records :
        /\ Final(In(records, records[a].parent).status)
        /\ records[a].op # "callback"
        => Final(records[a].status)

\* A handler that takes another way when it replays never makes the record of one
\* operation that of another, and never changes the end of one: the operation it
\* comes to instead is refused before it can read or write (_journal.py,
\* Ticket.select, compares the record before it is claimed).
RecordsStand ==
    [][\A a \in DOMAIN records :
          /\ a \in DOMAIN records' /\ records'[a].op = records[a].op
          /\ Final(records[a].status) => records'[a] = records[a]]_vars

\* Every execution has an outcome.
ExecutionEnds == <>(invocation = "over")

\* A log statement of the handler is emitted in one of the invocations.
\* docs/index.md: "Standard logging calls are replay-aware and can remain in
\* the handler."
LogsAppear ==
    outcome = "ok" => \A i \in 1 .. Len(program) :
                          program[i].op = "log" => <<Root, i>> \in logged
=============================================================================
