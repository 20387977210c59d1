------------------------------- MODULE Groups -------------------------------
(***************************************************************************)
(* One group of branches (_groups.py, collect under parallel and map) over  *)
(* the invocations of an execution.                                         *)
(*                                                                         *)
(* The group launches branches in the order of their indexes, keeps a slot  *)
(* for each launched branch whose outcome it has not seen, and asks its     *)
(* completion policy after every branch it looks at.  Once the policy is    *)
(* satisfied it cancels the rest, gathers them and reports what became of   *)
(* each; the scope around it makes the report durable.  A group whose       *)
(* branches have all come to rest without a decision suspends.  The next    *)
(* invocation starts from nothing but the records.                          *)
(*                                                                         *)
(* A branch body is a durable wait (or none) and then a fixed fate; a       *)
(* retryable InvocationError may come in between.  NESTED branches keep a   *)
(* record of their own, FLAT ones do not.  Two fates break the group: a     *)
(* SerDesError and a permanent InvocationError leave collect and fail the   *)
(* scope around it, whatever its policy is.                                 *)
(***************************************************************************)
EXTENDS Naturals, Sequences, FiniteSets

CONSTANTS
    Workloads,       \* the groups considered, and what their branches do
    MaxCrashes,      \* bound: crashes of an invocation
    MaxInterrupts,   \* bound: InvocationErrors out of branch bodies
    None

\* custom: the thresholds are those of a callback like the one of
\* map_with_custom_should_complete.py.
Config == [nested : BOOLEAN, limit : Nat \ {0}, min : Nat \cup {None},
           tolerated : Nat, custom : BOOLEAN]

Fates == {"SUCCEEDED", "FAILED", "SERDES", "PERMANENT"}

ASSUME GroupsAssumption ==
    /\ None \notin Nat
    /\ \A w \in Workloads :
          /\ w.config \in Config /\ (w.config.custom => w.config.min # None)
          /\ w.fate \in Seq(Fates)
          /\ w.waits \in Seq(BOOLEAN) /\ Len(w.waits) = Len(w.fate)
    /\ {MaxCrashes, MaxInterrupts} \subseteq Nat

VARIABLES
    config, fate, waits,   \* the group and what its branches do
    \* the invocation
    group,                 \* where collect is
    task,                  \* the task of each branch
    outcome,               \* collect's outcomes
    paused,                \* collect's paused
    reason,                \* the decision
    queued,                \* branches whose verdict is in the mailbox
    \* the records
    record,                \* each NESTED branch
    timer,                 \* the wait in each branch
    report,                \* the group's result
    \* budgets
    crashes, interrupts

Branches == DOMAIN fate
Count == Len(fate)

planVars == <<config, fate, waits>>
localVars == <<group, task, outcome, paused, reason, queued>>
durableVars == <<record, timer, report>>
vars == <<planVars, localVars, durableVars, crashes, interrupts>>

Idle == [b \in Branches |-> "idle"]
NoOutcome == [b \in Branches |-> "none"]
Unset == /\ task' = Idle /\ outcome' = NoOutcome
         /\ paused' = {} /\ reason' = "none" /\ queued' = {}

Init ==
    /\ \E w \in Workloads :
          config = w.config /\ fate = w.fate /\ waits = w.waits
    /\ group = "off"
    /\ task = Idle
    /\ outcome = NoOutcome
    /\ paused = {}
    /\ reason = "none"
    /\ queued = {}
    /\ record = NoOutcome
    /\ timer = NoOutcome
    /\ report = None
    /\ crashes = 0
    /\ interrupts = 0

----------------------------------------------------------------------------
(* The policy and the loop of collect                                      *)

Counted(o, status) == Cardinality({b \in Branches : o[b] = status})

\* Faulty variant of Decision: the tolerance is reached, not exceeded.
DecisionTooStrict(o) ==
    IF config.min # None /\ Counted(o, "SUCCEEDED") >= config.min
    THEN "MIN_SUCCESSFUL_REACHED"
    ELSE IF Counted(o, "FAILED") >= config.tolerated
    THEN "FAILURE_TOLERANCE_EXCEEDED"
    ELSE "none"

\* CompletionConfig.completion_decision on the counts of the outcomes.
Decision(o) ==
    IF config.custom
    THEN IF Counted(o, "SUCCEEDED") >= config.min THEN "CUSTOM_COMPLETION_SUCCEEDED"
         ELSE IF Counted(o, "FAILED") >= config.tolerated
         THEN "CUSTOM_COMPLETION_FAILED"
         ELSE "none"
    ELSE IF config.min # None /\ Counted(o, "SUCCEEDED") >= config.min
    THEN "MIN_SUCCESSFUL_REACHED"
    ELSE IF Counted(o, "FAILED") > config.tolerated
    THEN "FAILURE_TOLERANCE_EXCEEDED"
    ELSE IF Counted(o, "SUCCEEDED") + Counted(o, "FAILED") = Count
    THEN "ALL_COMPLETED"
    ELSE "none"

\* Branches that were launched and not looked at.
Active(t, o, p) == {b \in Branches : t[b] # "idle" /\ o[b] = "none"} \ p

\* The outcomes once the branches of a set are looked at.
Seen(set) == [b \in Branches |->
                 IF b \in set /\ task[b] = "returned" THEN "SUCCEEDED"
                 ELSE IF b \in set /\ task[b] = "raised" THEN "FAILED"
                 ELSE outcome[b]]

\* Finished branches are looked at in the order of their indexes.  The loop is
\* left at an InvocationError or a SerDesError, which observe raises, and at the
\* first decision.
Raises == {"interrupted", "broken"}
Stops(done, k) ==
    task[k] \in Raises \/ Decision(Seen({b \in done : b <= k})) # "none"
LookedAt(done) == {b \in done : \A k \in done : k < b => ~Stops(done, k)}

\* Faulty variant of Room: a suspended branch gives up its slot.
RoomBeside(set) == Cardinality(set)

\* Faulty variant of Room: a failure does not free its slot.
RoomOfSuccesses(set) == Cardinality({b \in set : task[b] = "returned"})

\* The outcomes of a set of branches make room for as many launches.
Room(set) == Cardinality({b \in set : task[b] \in {"returned", "raised"}})
Launched == {b \in Branches : task[b] # "idle"}
Launches(set) == {b \in Branches : b <= Cardinality(Launched) + Room(set)} \ Launched

----------------------------------------------------------------------------
(* The group                                                               *)

\* An invocation reaches the group: the first branches are launched.  A group
\* of none has its report.
Invoke ==
    /\ group = "off" /\ report = None
    /\ group' = IF Count = 0 THEN "gathering" ELSE "running"
    /\ reason' = IF Count = 0 THEN "ALL_COMPLETED" ELSE "none"
    /\ task' = [b \in Branches |-> IF b <= config.limit THEN "running" ELSE "idle"]
    /\ UNCHANGED <<planVars, outcome, paused, queued, durableVars, crashes,
                   interrupts>>

Ended == {"returned", "raised", "interrupted", "broken", "paused"}

\* Each outcome has launched the next branch; a group at rest with suspended
\* branches suspends.
GoOn(set) ==
    LET next == Launches(set)
        left == Active(task, Seen(set), paused')
    IN
    /\ task' = [b \in Branches |-> IF b \in next THEN "running" ELSE task[b]]
    /\ group' = IF left \cup next # {} THEN "running"
                ELSE IF paused' # {} THEN "pausing" ELSE "undecided"

\* The last branch looked at stops the group: the branches that are left and
\* not finished are cancelled, those the round has just launched before they run.
Stop(set) ==
    LET next == Launches({b \in set : \E k \in set : b < k})
        left == Active(task, Seen(set), paused')
    IN
    /\ task' = [b \in Branches |-> IF b \in next THEN "cancelled"
                                   ELSE IF b \in left /\ task[b] \notin Ended
                                   THEN "cancelling" ELSE task[b]]
    /\ group' = "gathering"

\* The task of the group runs and looks at what has finished.
Wake ==
    LET done == {b \in Active(task, outcome, paused) : task[b] \in Ended} IN
    /\ group = "running" /\ done # {}
    /\ \E set \in {LookedAt(done)} :
          /\ outcome' = Seen(set)
          /\ paused' = paused \cup {b \in set : task[b] = "paused"}
          /\ reason' = IF \E b \in set : task[b] = "interrupted" THEN "raise"
                       ELSE IF \E b \in set : task[b] = "broken" THEN "break"
                       ELSE Decision(Seen(set))
          /\ IF reason' = "none" THEN GoOn(set) ELSE Stop(set)
    /\ UNCHANGED <<planVars, queued, durableVars, crashes, interrupts>>

\* The group and then the handler suspend; close() drains the mailbox.
Suspend ==
    /\ group = "pausing" /\ queued = {}
    /\ group' = "off" /\ Unset
    /\ UNCHANGED <<planVars, durableVars, crashes, interrupts>>

\* The branches that were left have come to an end, and what was queued is durable.
Gathered ==
    /\ group = "gathering" /\ queued = {}
    /\ \A b \in Branches : task[b] # "cancelling"

\* A retryable error of a branch leaves the group and the handler: invoke again.
Fail ==
    /\ Gathered /\ reason = "raise"
    /\ group' = "off" /\ Unset
    /\ UNCHANGED <<planVars, durableVars, crashes, interrupts>>

\* Another one fails the scope of the group, which has no report then.
Break ==
    /\ Gathered /\ reason = "break"
    /\ report' = [items |-> NoOutcome, reason |-> reason]
    /\ group' = "over"
    /\ UNCHANGED <<planVars, task, outcome, paused, reason, queued, record, timer,
                   crashes, interrupts>>

\* What the report says of a branch.
Reported(b) ==
    CASE b \in paused -> "CANCELLED"
      [] b \notin paused /\ outcome[b] # "none" -> outcome[b]
      [] b \in Active(task, outcome, paused) /\ task[b] \in {"cancelled", "paused"}
            -> "CANCELLED"
      [] b \in Active(task, outcome, paused) /\ task[b] \in {"raised"} \cup Raises
            -> "FAILED"
      [] b \in Active(task, outcome, paused) /\ task[b] = "returned" -> "SUCCEEDED"
      [] OTHER -> "none"

\* All are gathered; the report goes to the scope, whose SUCCEED follows every
\* verdict that is queued.
Report ==
    /\ Gathered /\ reason \notin {"raise", "break"}
    /\ report' = [items |-> [b \in Branches |-> Reported(b)], reason |-> reason]
    /\ group' = "over"
    /\ UNCHANGED <<planVars, task, outcome, paused, reason, queued, record, timer,
                   crashes, interrupts>>

Crash ==
    /\ group \notin {"off", "over"}
    /\ crashes < MaxCrashes /\ crashes' = crashes + 1
    /\ group' = "off" /\ Unset
    /\ UNCHANGED <<planVars, durableVars, interrupts>>

----------------------------------------------------------------------------
(* The branches                                                            *)

Becomes(b, state) == task' = [task EXCEPT ![b] = state]
Rest == UNCHANGED <<planVars, group, outcome, paused, reason, report, crashes>>

\* How a branch ends by its fate; a record of a SerDesError is read back as an
\* ExecutionError (raise_record), which is a failure like another.
Ending(f) == CASE f = "SUCCEEDED" -> "returned" [] f = "FAILED" -> "raised"
               [] OTHER -> "broken"
Replayed(f) == IF f = "SERDES" THEN "raised" ELSE Ending(f)

\* A NESTED branch without a record writes its START first.
Enter(b) ==
    /\ task[b] = "running" /\ config.nested /\ record[b] = "none"
    /\ record' = [record EXCEPT ![b] = "STARTED"]
    /\ UNCHANGED <<task, queued, timer, interrupts>> /\ Rest

\* A NESTED branch with a verdict replays it.
Replay(b) ==
    /\ task[b] = "running" /\ record[b] \in Fates
    /\ Becomes(b, Replayed(record[b]))
    /\ UNCHANGED <<queued, record, timer, interrupts>> /\ Rest

\* The body has begun and has not ended.
Inside(b) ==
    b \notin queued /\ record[b] = IF config.nested THEN "STARTED" ELSE "none"
InBody(b) == task[b] = "running" /\ Inside(b)

\* The wait of the body is not over.
Pause(b) ==
    /\ InBody(b) /\ waits[b] /\ timer[b] # "SUCCEEDED"
    /\ timer' = [timer EXCEPT ![b] = "STARTED"]
    /\ Becomes(b, "paused")
    /\ UNCHANGED <<queued, record, interrupts>> /\ Rest

\* The body ends as it must; a NESTED branch queues its verdict and waits for
\* the receipt.
End(b) ==
    /\ InBody(b) /\ (waits[b] => timer[b] = "SUCCEEDED")
    /\ IF config.nested
       THEN Becomes(b, "committing") /\ queued' = queued \cup {b}
       ELSE Becomes(b, Ending(fate[b])) /\ UNCHANGED queued
    /\ UNCHANGED <<record, timer, interrupts>> /\ Rest

\* The backend applies a queued verdict, whatever became of the task.
Apply(b) ==
    /\ b \in queued
    /\ queued' = queued \ {b}
    /\ record' = [record EXCEPT ![b] = fate[b]]
    /\ UNCHANGED <<task, timer, interrupts>> /\ Rest

\* Faulty variant of Finish: the branch does not wait for its receipt.
FinishEarly(b) ==
    /\ task[b] = "committing"
    /\ Becomes(b, Ending(fate[b]))
    /\ queued' = queued \ {b}
    /\ UNCHANGED <<record, timer, interrupts>> /\ Rest

Finish(b) ==
    /\ task[b] = "committing" /\ b \notin queued
    /\ Becomes(b, Ending(record[b]))
    /\ UNCHANGED <<queued, record, timer, interrupts>> /\ Rest

\* A retryable InvocationError leaves the body, or its cleanup when cancelled.
Interrupt(b) ==
    /\ task[b] \in {"running", "cancelling"} /\ Inside(b)
    /\ interrupts < MaxInterrupts /\ interrupts' = interrupts + 1
    /\ Becomes(b, "interrupted")
    /\ UNCHANGED <<queued, record, timer>> /\ Rest

\* A cancelled branch unwinds.
Unwind(b) ==
    /\ task[b] = "cancelling"
    /\ Becomes(b, "cancelled")
    /\ UNCHANGED <<queued, record, timer, interrupts>> /\ Rest

\* Time passes.
Elapse(b) ==
    /\ timer[b] = "STARTED"
    /\ timer' = [timer EXCEPT ![b] = "SUCCEEDED"]
    /\ UNCHANGED <<task, queued, record, interrupts>> /\ Rest

----------------------------------------------------------------------------
GroupStep == Invoke \/ Wake \/ Suspend \/ Fail \/ Break \/ Report
BranchStep(b) == \/ Enter(b) \/ Replay(b) \/ Pause(b) \/ End(b) \/ Apply(b)
                 \/ Finish(b) \/ Unwind(b)

Next ==
    \/ Invoke \/ Wake \/ Suspend \/ Fail \/ Break \/ Report \/ Crash
    \/ \E b \in Branches :
          \/ Enter(b) \/ Replay(b) \/ Pause(b) \/ End(b) \/ Apply(b)
          \/ Finish(b) \/ Unwind(b) \/ Interrupt(b) \/ Elapse(b)

Spec == Init /\ [][Next]_vars

\* The driver invokes, the loop runs what is ready, requests are answered,
\* bodies end and waits elapse.
Indexes == UNION {DOMAIN w.fate : w \in Workloads}
Fairness ==
    /\ WF_vars(GroupStep)
    /\ \A b \in Indexes : /\ WF_vars(b \in Branches /\ BranchStep(b))
                          /\ WF_vars(b \in Branches /\ Elapse(b))

FairSpec == Spec /\ Fairness

----------------------------------------------------------------------------
(* Properties                                                              *)

Statuses == {"none", "SUCCEEDED", "FAILED", "CANCELLED"}
Reasons == {"MIN_SUCCESSFUL_REACHED", "FAILURE_TOLERANCE_EXCEEDED", "ALL_COMPLETED",
            "CUSTOM_COMPLETION_SUCCEEDED", "CUSTOM_COMPLETION_FAILED"}

\* Every variable has its type; a report gives one of the five reasons, or says
\* that the group's scope failed.  A group of a callback that accepts no end is
\* left "undecided".
TypeOK ==
    /\ config \in Config
    /\ fate \in [Branches -> Fates]
    /\ waits \in [Branches -> BOOLEAN]
    /\ group \in {"off", "running", "pausing", "gathering", "over", "undecided"}
    /\ task \in [Branches -> {"idle", "running", "committing", "cancelling",
                              "cancelled"} \cup Ended]
    /\ outcome \in [Branches -> Statuses \ {"CANCELLED"}]
    /\ paused \subseteq Branches
    /\ reason \in Reasons \cup {"none", "raise", "break"}
    /\ queued \subseteq Branches
    /\ record \in [Branches -> {"none", "STARTED"} \cup Fates]
    /\ timer \in [Branches -> {"none", "STARTED", "SUCCEEDED"}]
    /\ report \in {None} \cup [items : [Branches -> Statuses],
                               reason : Reasons \cup {"break"}]
    /\ crashes \in 0 .. MaxCrashes
    /\ interrupts \in 0 .. MaxInterrupts

\* "A suspended branch retains its concurrency slot": never are more branches
\* unfinished than the limit allows.
SlotsKept ==
    group \in {"running", "pausing"} =>
        Cardinality(Active(task, outcome, paused) \cup paused) <= config.limit

\* The report's reason is true of its items, with the branches that were
\* cancelled, gathered or never launched counted in.  A group that fails does so
\* for a branch that broke in this invocation and that it has no outcome of.
ReportIsJustified ==
    report # None =>
        LET n(status) == Counted(report.items, status) IN
        CASE report.reason = "MIN_SUCCESSFUL_REACHED" ->
                config.min # None /\ n("SUCCEEDED") >= config.min
          [] report.reason = "FAILURE_TOLERANCE_EXCEEDED" ->
                n("FAILED") > config.tolerated
          [] report.reason = "ALL_COMPLETED" ->
                /\ n("SUCCEEDED") + n("FAILED") = Count
                /\ n("FAILED") <= config.tolerated
          [] report.reason = "CUSTOM_COMPLETION_SUCCEEDED" ->
                n("SUCCEEDED") >= config.min
          [] report.reason = "CUSTOM_COMPLETION_FAILED" ->
                n("FAILED") >= config.tolerated
          [] report.reason = "break" ->
                \E b \in Branches : task[b] = "broken" /\ outcome[b] = "none"

\* What the report says of a NESTED branch agrees with the branch's own record:
\* a success and a failure are durable, and no verdict of the record is
\* reported as the other one.
ItemsMatchRecords ==
    report # None /\ config.nested =>
        \A b \in Branches :
            /\ report.items[b] = "SUCCEEDED" => record[b] = "SUCCEEDED"
            /\ report.items[b] = "FAILED" =>
                  record[b] \in Fates \ {"SUCCEEDED"} \/ task[b] = "interrupted"

\* The group reports or fails: suspensions, crashes and retryable errors only
\* delay it, and it never comes to rest undecided ("Completion policy did not finish").
GroupReports == <>(report # None)

\* "Started unfinished branches are retained as CANCELLED after early
\* completion": a branch that began durable work is in the report.
StartedIsReported ==
    report # None /\ report.reason # "break" =>
        \A b \in Branches : record[b] # "none" \/ timer[b] # "none"
                                => report.items[b] # "none"
=============================================================================
