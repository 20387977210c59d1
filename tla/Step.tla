-------------------------------- MODULE Step --------------------------------
(***************************************************************************)
(* One durable step over the invocations of an execution.                   *)
(*                                                                         *)
(* The effect of the step (_effects.py, step_effect) reads the record the   *)
(* invocation was handed, replays an outcome it finds there, and otherwise  *)
(* runs the body between a START and a SUCCEED, RETRY or FAIL checkpoint.   *)
(* The record lives in the backend (_testing.py, MemoryBackend), which      *)
(* takes a checkpoint only under the current lease token.  The driver       *)
(* (_testing.py, _drive) invokes the handler until the execution is over.   *)
(*                                                                         *)
(* An invocation can be cut short at any await: by a suspension elsewhere   *)
(* in the handler, by a group that cancels the step, by a lost answer, by a *)
(* crash, or by a service that takes it for dead and starts another one     *)
(* beside it.                                                               *)
(***************************************************************************)
EXTENDS Naturals, FiniteSets

CONSTANTS
    Slots,          \* environments an invocation can run in
    Values,         \* results the body may compute
    MaxAttempts,    \* bound: the retry policy stops after this many attempts
    MaxFailures,    \* failed invocations in a row the driver accepts (5 in the code)
    MaxFaults,      \* bound: crashes, lost answers and invocations taken for dead
    MaxCuts,        \* bound: suspensions and cancellations from outside the step
    None

ASSUME StepAssumption ==
    /\ None \notin Slots \cup Values
    /\ Values \cap {"plain", "condition", "interrupted", "callable",
                    "invocation", "execution", "broken"} = {}
    /\ MaxAttempts \in Nat \ {0}
    /\ {MaxFailures, MaxFaults, MaxCuts} \subseteq Nat

\* What a body can raise: checkpointed as the failure of an attempt
\* (WaitForConditionError and RetryableSerDesError among the framework's own
\* errors), or passed to the handler as it is.
Failures == {"plain", "condition"}
Uncheckpointed == {"invocation", "execution"}

VARIABLES
    config,         \* [atMostOnce, stateful]: how the step was declared
    \* backend
    entry,          \* the step's record: status, attempt, result
    seq,            \* its sequence number: the lease token it accepts
    \* driver
    current,        \* slot of the invocation it waits for
    failures,       \* failed invocations in a row
    over,           \* the execution has an outcome
    \* each invocation
    pc,             \* where the step's effect is
    view,           \* the record as the invocation was handed it
    token,          \* lease token its journal holds
    request,        \* its last checkpoint update for the step
    wire,           \* what became of it
    out,            \* what the step gave the handler
    \* history and budgets
    runs,           \* starts of the body for each attempt (two stands for more)
    faults, cuts

backendVars == <<entry, seq>>
driverVars == <<current, failures, over>>
effectVars == <<pc, view, token, request, wire, out>>
vars == <<config, backendVars, driverVars, effectVars, runs, faults, cuts>>

NoEntry == [status |-> "none", attempt |-> 0, result |-> None]
Update(action, result) == [action |-> action, result |-> result]
NoUpdate == Update("none", None)
Attempts == 1 .. MaxAttempts

Init ==
    /\ config \in [atMostOnce : BOOLEAN, stateful : BOOLEAN]
    /\ entry = NoEntry
    /\ seq = 0
    /\ current = None
    /\ failures = 0
    /\ over = FALSE
    /\ pc = [i \in Slots |-> "off"]
    /\ view = [i \in Slots |-> NoEntry]
    /\ token = [i \in Slots |-> 0]
    /\ request = [i \in Slots |-> NoUpdate]
    /\ wire = [i \in Slots |-> "none"]
    /\ out = [i \in Slots |-> None]
    /\ runs = [n \in Attempts |-> 0]
    /\ faults = 0
    /\ cuts = 0

----------------------------------------------------------------------------
(* The driver                                                              *)

\* invoke_workflow with the token and the records of this moment.
Invoke(i) ==
    /\ ~over /\ current = None /\ pc[i] = "off"
    /\ current' = i
    /\ pc' = [pc EXCEPT ![i] = "effect"]
    /\ view' = [view EXCEPT ![i] = entry]
    /\ token' = [token EXCEPT ![i] = seq]
    /\ request' = [request EXCEPT ![i] = NoUpdate]
    /\ wire' = [wire EXCEPT ![i] = "none"]
    /\ UNCHANGED <<config, backendVars, failures, over, out, runs, faults, cuts>>

\* The invocation of a slot is over, and what it held is gone but for a request
\* on the wire; the driver hears of it when it waits for it.
Leave(i) ==
    /\ pc' = [pc EXCEPT ![i] = "off"]
    /\ current' = IF current = i THEN None ELSE current
    /\ out' = [out EXCEPT ![i] = None]
    /\ IF wire[i] = "sent"
       THEN UNCHANGED <<view, token, request, wire>>
       ELSE /\ view' = [view EXCEPT ![i] = NoEntry]
            /\ token' = [token EXCEPT ![i] = 0]
            /\ request' = [request EXCEPT ![i] = NoUpdate]
            /\ wire' = [wire EXCEPT ![i] = "none"]
    /\ UNCHANGED <<config, backendVars, runs>>

\* close() has let the writer finish.
Drained(i) == wire[i] # "sent"

\* The handler returns or raises an error that is the execution's outcome.
HandlerEnds(i) ==
    /\ pc[i] \in {"delivered", "cancelled"} /\ Drained(i)
    /\ Leave(i)
    /\ over' = (over \/ current = i)
    /\ UNCHANGED <<failures, faults, cuts>>

\* The handler suspends: on the step's own Pause, or on other durable work.
HandlerSuspends(i) ==
    /\ pc[i] \in {"delivered", "cancelled", "paused"} /\ Drained(i)
    /\ \/ pc[i] = "paused" /\ UNCHANGED cuts
       \/ pc[i] # "paused" /\ cuts < MaxCuts /\ cuts' = cuts + 1
    /\ Leave(i)
    /\ failures' = IF current = i THEN 0 ELSE failures
    /\ UNCHANGED <<over, faults>>

\* Errors the handler can pass on that make the driver invoke it again.
Retryable(e) == e \in {"invocation", "interrupted", "broken"}

\* Faulty variant of HandlerFails: the driver does not count.
HandlerFailsUncounted(i) ==
    /\ pc[i] = "delivered" /\ Retryable(out[i]) /\ Drained(i)
    /\ Leave(i)
    /\ UNCHANGED <<failures, over, faults, cuts>>

\* A retryable InvocationError leaves the handler.
HandlerFails(i) ==
    /\ pc[i] = "delivered" /\ Retryable(out[i]) /\ Drained(i)
    /\ Leave(i)
    /\ failures' = IF current = i THEN failures + 1 ELSE failures
    /\ over' = (over \/ failures' > MaxFailures)
    /\ UNCHANGED <<faults, cuts>>

\* The environment of an invocation dies (nothing it sent is lost or undone).
Crash(i) ==
    /\ pc[i] # "off"
    /\ faults < MaxFaults /\ faults' = faults + 1
    /\ Leave(i)
    /\ UNCHANGED <<failures, over, cuts>>

\* The service takes an invocation for dead that goes on.
TakeForDead ==
    /\ current # None
    /\ faults < MaxFaults /\ faults' = faults + 1
    /\ current' = None
    /\ UNCHANGED <<config, backendVars, failures, over, effectVars, runs, cuts>>

----------------------------------------------------------------------------
(* The backend                                                             *)

\* The statuses an action may find, and what it leaves.
Legal(u) == entry.status \in IF u.action = "START" THEN {"none", "READY"}
                                                   ELSE {"STARTED", "READY"}

Applied(u) ==
    IF u.action = "START"
    THEN [entry EXCEPT !.status = "STARTED"]
    ELSE [status |-> CASE u.action = "SUCCEED" -> "SUCCEEDED"
                       [] u.action = "FAIL" -> "FAILED"
                       [] u.action = "RETRY" -> "PENDING",
          attempt |-> entry.attempt + 1,
          result |-> u.result]

Answer(i, w) ==
    /\ wire' = [wire EXCEPT ![i] = w]
    /\ UNCHANGED <<config, driverVars, pc, view, request, out, runs, cuts>>

\* Faulty variant of TransactApplies: the lease is not looked at.
TransactAppliesAnyLease(i) ==
    /\ wire[i] = "sent" /\ Legal(request[i])
    /\ entry' = Applied(request[i])
    /\ seq' = seq + 1
    /\ token' = [token EXCEPT ![i] = seq + 1]
    /\ UNCHANGED faults
    /\ Answer(i, "ok")

\* transact under the current lease.
TransactApplies(i) ==
    /\ wire[i] = "sent" /\ token[i] = seq /\ Legal(request[i])
    /\ entry' = Applied(request[i])
    /\ seq' = seq + 1
    /\ token' = [token EXCEPT ![i] = seq + 1]
    /\ UNCHANGED faults
    /\ Answer(i, "ok")

\* A stale lease or an illegal transition.
TransactRefuses(i) ==
    /\ wire[i] = "sent" /\ ~(token[i] = seq /\ Legal(request[i]))
    /\ UNCHANGED <<entry, seq, token, faults>>
    /\ Answer(i, "refused")

\* The request was applied but its answer never arrives.
LoseAnswer(i) ==
    /\ wire[i] = "ok" /\ pc[i] \in {"starting", "settling", "retrying"}
    /\ faults < MaxFaults /\ faults' = faults + 1
    /\ UNCHANGED <<entry, seq, token>>
    /\ Answer(i, "refused")

\* MemoryBackend.advance: the delay of a retry is over.
Advance ==
    /\ entry.status = "PENDING"
    /\ entry' = [entry EXCEPT !.status = "READY"]
    /\ UNCHANGED <<config, seq, driverVars, effectVars, runs, faults, cuts>>

----------------------------------------------------------------------------
(* The step's effect                                                       *)

\* The attempt this invocation would make, and whether it may run the body of
\* an attempt that was started before.
Attempt(i) == view[i].attempt + 1
Interrupted(i) == view[i].status = "STARTED" /\ config.atMostOnce

\* raise_record(error_record(e)), and what a fresh failure raises.
Reraised(e) == IF e = "condition" THEN "condition" ELSE "callable"
Raised(e) == IF config.stateful \/ e = "interrupted" THEN e ELSE Reraised(e)

Deliver(i, o) ==
    /\ pc' = [pc EXCEPT ![i] = "delivered"]
    /\ out' = [out EXCEPT ![i] = o]

Commit(i, action, result, next) ==
    /\ request' = [request EXCEPT ![i] = Update(action, result)]
    /\ wire' = [wire EXCEPT ![i] = "sent"]
    /\ pc' = [pc EXCEPT ![i] = next]
    /\ UNCHANGED out

RunBody(i) ==
    /\ pc' = [pc EXCEPT ![i] = "body"]
    /\ runs' = [runs EXCEPT ![Attempt(i)] = IF @ = 0 THEN 1 ELSE 2]
    /\ UNCHANGED <<out, request, wire>>

Rest == UNCHANGED <<config, backendVars, driverVars, view, token, faults, cuts>>

\* A recorded outcome is given again, without the body.
EffectReplay(i) ==
    /\ pc[i] = "effect" /\ view[i].status \in {"SUCCEEDED", "FAILED"}
    /\ Deliver(i, IF view[i].status = "SUCCEEDED" THEN view[i].result
                                                  ELSE Reraised(view[i].result))
    /\ UNCHANGED <<request, wire, runs>> /\ Rest

EffectPauses(i) ==
    /\ pc[i] = "effect" /\ view[i].status = "PENDING"
    /\ pc' = [pc EXCEPT ![i] = "paused"]
    /\ UNCHANGED <<out, request, wire, runs>> /\ Rest

\* Faulty variant of EffectStarts: the START is not waited for.
EffectStartsEarly(i) ==
    /\ pc[i] = "effect" /\ view[i].status \in {"none", "READY"}
    /\ Commit(i, "START", None, "body")
    /\ runs' = [runs EXCEPT ![Attempt(i)] = IF @ = 0 THEN 1 ELSE 2]
    /\ Rest

EffectStarts(i) ==
    /\ pc[i] = "effect" /\ view[i].status \in {"none", "READY"}
    /\ Commit(i, "START", None, "starting")
    /\ UNCHANGED runs /\ Rest

StartAcked(i) ==
    /\ pc[i] = "starting" /\ wire[i] = "ok"
    /\ RunBody(i) /\ Rest

\* Faulty variant of EffectResumes: the semantics are not looked at.
EffectResumesAnyway(i) ==
    /\ pc[i] = "effect" /\ view[i].status = "STARTED"
    /\ RunBody(i) /\ Rest

\* An earlier invocation started this attempt: run its body again.
EffectResumes(i) ==
    /\ pc[i] = "effect" /\ view[i].status = "STARTED" /\ ~Interrupted(i)
    /\ RunBody(i) /\ Rest

BodyReturns(i) ==
    /\ pc[i] = "body"
    /\ \E v \in Values : Commit(i, "SUCCEED", v, "settling")
    /\ UNCHANGED runs /\ Rest

\* A stateful body (wait_for_condition) asks for another attempt.
BodyAgain(i) ==
    /\ pc[i] = "body" /\ config.stateful /\ Attempt(i) < MaxAttempts
    /\ Commit(i, "RETRY", None, "retrying")
    /\ UNCHANGED runs /\ Rest

\* The retry policy decides on the failure of an attempt: another attempt, the
\* failure of the step, or an error of its own.
Settle(i, e) ==
    /\ \/ /\ Attempt(i) < MaxAttempts
          /\ Commit(i, "RETRY", None, "retrying")
       \/ Commit(i, "FAIL", e, "settling")
       \/ Commit(i, "FAIL", "plain", "settling")
    /\ UNCHANGED runs /\ Rest

BodyFails(i) ==
    /\ pc[i] = "body"
    /\ \E e \in Failures : Settle(i, e)

\* The body of the started attempt must not run again.
EffectInterrupted(i) ==
    /\ pc[i] = "effect" /\ Interrupted(i)
    /\ Settle(i, "interrupted")

\* The framework's own errors leave the step at once.
BodyRaises(i) ==
    /\ pc[i] = "body"
    /\ \E e \in Uncheckpointed : Deliver(i, e)
    /\ UNCHANGED <<request, wire, runs>> /\ Rest

RetryAcked(i) ==
    /\ pc[i] = "retrying" /\ wire[i] = "ok"
    /\ pc' = [pc EXCEPT ![i] = "paused"]
    /\ UNCHANGED <<out, request, wire, runs>> /\ Rest

Verdict(u) == IF u.action = "SUCCEED" THEN u.result ELSE Raised(u.result)

\* Faulty variant of VerdictAcked: the outcome is given before it is durable.
VerdictUnacked(i) ==
    /\ pc[i] = "settling" /\ wire[i] # "refused"
    /\ Deliver(i, Verdict(request[i]))
    /\ UNCHANGED <<request, wire, runs>> /\ Rest

VerdictAcked(i) ==
    /\ pc[i] = "settling" /\ wire[i] = "ok"
    /\ Deliver(i, Verdict(request[i]))
    /\ UNCHANGED <<request, wire, runs>> /\ Rest

\* The journal is broken: commit raises an InvocationError.
CommitRaises(i) ==
    /\ pc[i] \in {"starting", "settling", "retrying"} /\ wire[i] = "refused"
    /\ Deliver(i, "broken")
    /\ UNCHANGED <<request, wire, runs>> /\ Rest

\* The task is cancelled at an await, by a group or by the close of an
\* invocation that suspends; a request of it stays with the writer.
Cancel(i) ==
    /\ pc[i] \in {"effect", "starting", "body", "settling", "retrying"}
    /\ cuts < MaxCuts /\ cuts' = cuts + 1
    /\ pc' = [pc EXCEPT ![i] = "cancelled"]
    /\ UNCHANGED <<config, backendVars, driverVars, view, token, request, wire,
                   out, runs, faults>>

----------------------------------------------------------------------------
EffectStep(i) ==
    \/ EffectReplay(i) \/ EffectPauses(i) \/ EffectStarts(i) \/ StartAcked(i)
    \/ EffectResumes(i) \/ EffectInterrupted(i)
    \/ BodyReturns(i) \/ BodyAgain(i) \/ BodyFails(i) \/ BodyRaises(i)
    \/ RetryAcked(i) \/ VerdictAcked(i) \/ CommitRaises(i)
Transact(i) == TransactApplies(i) \/ TransactRefuses(i)
HandlerStep(i) == HandlerEnds(i) \/ HandlerSuspends(i) \/ HandlerFails(i)

Next ==
    \/ \E i \in Slots :
          \/ Invoke(i) \/ EffectStep(i) \/ Transact(i) \/ HandlerStep(i)
          \/ Cancel(i) \/ Crash(i) \/ LoseAnswer(i)
    \/ TakeForDead \/ Advance

Spec == Init /\ [][Next]_vars

\* The driver invokes, the loop runs what is ready, the backend answers, bodies
\* and handlers end, and time passes.
Fairness ==
    /\ WF_vars(\E i \in Slots : Invoke(i))
    /\ WF_vars(Advance)
    /\ \A i \in Slots : /\ WF_vars(EffectStep(i))
                        /\ WF_vars(Transact(i))
                        /\ WF_vars(HandlerStep(i))

FairSpec == Spec /\ Fairness

----------------------------------------------------------------------------
(* Properties                                                              *)

Errors == Failures \cup {"interrupted"}
Entry == [status : {"none", "STARTED", "PENDING", "READY", "SUCCEEDED", "FAILED"},
          attempt : 0 .. MaxAttempts,
          result : Values \cup Errors \cup {None}]
Requests == [action : {"none", "START", "SUCCEED", "RETRY", "FAIL"},
             result : Values \cup Errors \cup {None}]

\* Every variable has its type: attempts stay within the policy, and a record
\* holds what a body returned or a checkpointed failure.
TypeOK ==
    /\ config \in [atMostOnce : BOOLEAN, stateful : BOOLEAN]
    /\ entry \in Entry
    /\ seq \in Nat
    /\ current \in Slots \cup {None}
    /\ failures \in Nat
    /\ over \in BOOLEAN
    /\ pc \in [Slots -> {"off", "effect", "starting", "body", "settling", "retrying",
                         "paused", "delivered", "cancelled"}]
    /\ view \in [Slots -> Entry]
    /\ token \in [Slots -> Nat]
    /\ request \in [Slots -> Requests]
    /\ wire \in [Slots -> {"none", "sent", "ok", "refused"}]
    /\ out \in [Slots -> Values \cup Errors \cup Uncheckpointed
                             \cup {"callable", "broken", None}]
    /\ runs \in [Attempts -> 0 .. 2]
    /\ faults \in 0 .. MaxFaults
    /\ cuts \in 0 .. MaxCuts

\* Under AT_MOST_ONCE_PER_RETRY no attempt runs its body twice, whatever
\* crashes, is cancelled, loses its answer or runs side by side.
AtMostOncePerAttempt ==
    config.atMostOnce => \A n \in Attempts : runs[n] <= 1

\* A body runs only after the START of its attempt is durable: the record shows
\* the attempt started, or has moved past it.
StartIsDurable ==
    \A i \in Slots : pc[i] = "body" =>
        \/ entry.status = "STARTED" /\ entry.attempt = view[i].attempt
        \/ entry.attempt > view[i].attempt

\* Every value and every checkpointed failure the handler sees is in the
\* record, so the next invocation sees it again.
DeliveredIsDurable ==
    \A i \in Slots : pc[i] = "delivered" =>
        /\ out[i] \in Values =>
              entry.status = "SUCCEEDED" /\ entry.result = out[i]
        /\ out[i] \in Errors \cup {"callable"} =>
              /\ entry.status = "FAILED"
              /\ out[i] \in {Raised(entry.result), Reraised(entry.result)}

\* An attempt is counted by the invocation that made it: no late verdict of an
\* older invocation closes a newer attempt.
CountsItsAttempt ==
    [][entry'.attempt # entry.attempt =>
          \E i \in Slots : /\ wire[i] = "sent" /\ wire'[i] = "ok"
                           /\ entry'.attempt = Attempt(i)]_vars

\* The execution gets an outcome, whatever the body raises and the handler does
\* with it.
ExecutionEnds == <>over

\* "A callable failure is checkpointed after retries stop": a failure the body
\* raised reaches the handler only with a FAILED record.
FailureIsCheckpointed ==
    \A i \in Slots : pc[i] = "delivered" /\ out[i] \in {"callable", "condition", "execution"}
        => entry.status = "FAILED"
=============================================================================
