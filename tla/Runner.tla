------------------------------- MODULE Runner -------------------------------
(***************************************************************************)
(* The local driver of an execution (_testing.py, _drive), its virtual      *)
(* clock, and the outside world that answers callbacks while the handler    *)
(* runs, while the driver sleeps and after it has gone on.                  *)
(*                                                                         *)
(* The backend's clock stands still but for two events: the driver, with a  *)
(* durable timer pending, jumps to the earliest deadline; and a callback     *)
(* call or a wake-up adds the real time that has passed.  An invocation     *)
(* sees the records of its start and of its last checkpoint, never the      *)
(* backend itself.                                                         *)
(***************************************************************************)
EXTENDS Naturals, FiniteSets, FiniteSetsExt

CONSTANTS
    Waits, Callbacks, Invokes,   \* durable operations
    Configs,         \* [ops: those of the handler; wait, timeout, beat: seconds
                     \* (0: no limit); mocked: invokes the runner has a result for]
    Budget,          \* seconds the driver gives the execution (900 by default)
    MaxFailures,     \* failed invocations in a row the driver accepts (5 in the code)
    MaxWall,         \* bound: real seconds
    None

Ops == Waits \cup Callbacks \cup Invokes
Config == [ops : SUBSET Ops, wait : [Waits -> Nat \ {0}], timeout : [Callbacks -> Nat],
           beat : [Callbacks -> Nat], mocked : SUBSET Invokes]

ASSUME RunnerAssumption ==
    /\ Waits \cap Callbacks = {} /\ Waits \cap Invokes = {} /\ Callbacks \cap Invokes = {}
    /\ IsFiniteSet(Ops)
    /\ Configs \subseteq Config
    /\ {Budget, MaxFailures, MaxWall} \subseteq Nat
    /\ None \notin Nat

VARIABLES
    config,
    \* the world
    wall,            \* real time
    \* MemoryBackend
    now,             \* virtual time
    synced,          \* real time at which now was set (_wall)
    status, due,     \* each operation's record
    deadline,        \* absoluteDeadline of a callback
    changed,         \* the event
    \* the driver
    drive,           \* where it is
    alarm,           \* real time at which its sleep ends
    failures,        \* failed invocations in a row
    outcome,         \* how the execution ended
    \* the invocation
    view,            \* the records it can see
    read             \* what it has read of each operation

backendVars == <<now, synced, status, due, deadline, changed>>
driverVars == <<drive, alarm, failures, outcome>>
handlerVars == <<view, read>>
vars == <<config, wall, backendVars, driverVars, handlerVars>>

NoRecord == [o \in Ops |-> "none"]
Unread == [o \in Ops |-> "unread"]

Init ==
    /\ config \in Configs
    /\ wall = 0
    /\ now = 0
    /\ synced = 0
    /\ status = NoRecord
    /\ due = [o \in Ops |-> None]
    /\ deadline = [c \in Callbacks |-> None]
    /\ changed = FALSE
    /\ drive = "loop"
    /\ alarm = 0
    /\ failures = 0
    /\ outcome = None
    /\ view = NoRecord
    /\ read = Unread

----------------------------------------------------------------------------
(* The clock                                                               *)

\* sync_time: what the clock shows once the real time is added.
Clock == now + (wall - synced)

\* Faulty variant of Elapsed: it does not look at the status.
ElapsedOverwriting(t) ==
    [o \in Ops |->
        IF due[o] # None /\ t >= due[o]
        THEN IF o \in Waits THEN "SUCCEEDED" ELSE "TIMED_OUT"
        ELSE status[o]]

\* The statuses once it is t: waits are over, callbacks time out.
Elapsed(t) ==
    [o \in Ops |->
        IF status[o] = "STARTED" /\ due[o] # None /\ t >= due[o]
        THEN IF o \in Waits THEN "SUCCEEDED" ELSE "TIMED_OUT"
        ELSE status[o]]

Sync == now' = Clock /\ synced' = wall

\* Real time passes.
Tick ==
    /\ wall < MaxWall /\ wall' = wall + 1
    /\ drive \notin {"over", "cancelled"}
    /\ UNCHANGED <<config, backendVars, driverVars, handlerVars>>

----------------------------------------------------------------------------
(* The invocation                                                          *)

\* The invocation is over and what it knew is gone.
Forget == view' = NoRecord /\ read' = Unread

\* The deadline of an operation that starts at this virtual moment.
DueOf(o) ==
    IF o \in Waits THEN now + config.wait[o]
    ELSE IF o \in Invokes THEN None
    ELSE LET limits == {config.timeout[o], config.beat[o]} \ {0} IN
         IF limits = {} THEN None ELSE now + Min(limits)

\* The handler reaches an operation it has no record of.  A checkpoint is
\* answered with every record as it is now.
Start(o) ==
    /\ drive = "invoking" /\ o \in config.ops /\ view[o] = "none"
    /\ status' = [status EXCEPT ![o] = IF o \in config.mocked THEN "SUCCEEDED"
                                                              ELSE "STARTED"]
    /\ due' = [due EXCEPT ![o] = DueOf(o)]
    /\ deadline' = IF o \in Callbacks /\ config.timeout[o] # 0
                   THEN [deadline EXCEPT ![o] = now + config.timeout[o]] ELSE deadline
    /\ view' = status' /\ changed' = TRUE
    /\ UNCHANGED <<config, wall, now, synced, driverVars, read>>

\* Other durable work of the handler is checkpointed.
Checkpoint ==
    /\ drive = "invoking"
    /\ view' = status /\ changed' = TRUE
    /\ UNCHANGED <<config, wall, now, synced, status, due, deadline, driverVars, read>>

\* wait_effect after its START, invoke_effect, Callback.result: once each.
Read(o) ==
    /\ drive = "invoking" /\ read[o] = "unread" /\ view[o] # "none"
    /\ read' = [read EXCEPT ![o] = IF view[o] = "STARTED" THEN "paused" ELSE "done"]
    /\ UNCHANGED <<config, wall, backendVars, driverVars, view>>

\* The handler returns when everything is done, or raises for a callback that
\* failed.
HandlerEnds ==
    /\ drive = "invoking"
    /\ \/ \A o \in config.ops : read[o] = "done"
       \/ \E c \in Callbacks : read[c] = "done" /\ view[c] \in {"FAILED", "TIMED_OUT"}
    /\ drive' = "over" /\ outcome' = "ended"
    /\ Forget
    /\ UNCHANGED <<config, wall, backendVars, alarm, failures>>

\* A retryable InvocationError leaves it.
HandlerFails ==
    /\ drive = "invoking"
    /\ failures' = failures + 1
    /\ IF failures' > MaxFailures THEN drive' = "over" /\ outcome' = "failing"
                                  ELSE drive' = "loop" /\ UNCHANGED outcome
    /\ Forget
    /\ UNCHANGED <<config, wall, backendVars, alarm>>

----------------------------------------------------------------------------
(* The driver                                                              *)

Invoke ==
    /\ drive = "loop" /\ wall < Budget
    /\ drive' = "invoking"
    /\ view' = status
    /\ read' = Unread
    /\ UNCHANGED <<config, wall, backendVars, alarm, failures, outcome>>

BudgetSpent ==
    /\ drive = "loop" /\ wall >= Budget
    /\ drive' = "over" /\ outcome' = "timeout"
    /\ UNCHANGED <<config, wall, backendVars, alarm, failures, handlerVars>>

\* Operations of a kind that are under way.
Pending(set) == {o \in set : status[o] = "STARTED"}
DuesOf(set) == {due[o] : o \in {p \in Pending(set) : due[p] # None}}

\* The handler suspends, and the driver looks for what can bring it on.
Suspended ==
    /\ drive = "invoking"
    /\ \E o \in Ops : read[o] = "paused"
    /\ failures' = 0

\* Faulty variant of SkipAhead: to the last deadline.
SkipToLast ==
    /\ Suspended /\ Pending(Waits) # {}
    /\ LET target == Max({now, Max(DuesOf(Waits))}) IN
       /\ now' = target /\ synced' = wall
       /\ status' = Elapsed(target)
    /\ drive' = "loop" /\ Forget
    /\ UNCHANGED <<config, wall, due, deadline, changed, alarm, outcome>>

\* A durable timer is pending: jump to the earliest one.
SkipAhead ==
    /\ Suspended /\ Pending(Waits) # {}
    /\ LET target == Max({now, Min(DuesOf(Waits))}) IN
       /\ now' = target /\ synced' = wall
       /\ status' = Elapsed(target)
    /\ drive' = "loop" /\ Forget
    /\ UNCHANGED <<config, wall, due, deadline, changed, alarm, outcome>>

Outside == Pending(Callbacks \cup Invokes)

\* Faulty variant of Sleep: the budget does not bound it.
SleepOnDeadlines ==
    /\ Suspended /\ Pending(Waits) = {} /\ Outside # {}
    /\ changed' = FALSE
    /\ LET left == {IF d >= now THEN d - now ELSE 0 : d \in DuesOf(Callbacks)} IN
       alarm' = wall + IF left = {} THEN MaxWall + 1 ELSE Min(left)
    /\ drive' = "sleeping"
    /\ UNCHANGED <<config, wall, now, synced, status, due, deadline, outcome, handlerVars>>

\* Only the world can bring it on: sleep until something changes, a callback
\* is due, or the budget is spent.
Sleep ==
    /\ Suspended /\ Pending(Waits) = {} /\ Outside # {}
    /\ changed' = FALSE
    /\ LET left == {IF d >= now THEN d - now ELSE 0 : d \in DuesOf(Callbacks)}
           rest == IF wall <= Budget THEN Budget - wall ELSE 0
       IN alarm' = wall + Min(left \cup {rest})
    /\ drive' = "sleeping"
    /\ UNCHANGED <<config, wall, now, synced, status, due, deadline, outcome, handlerVars>>

\* Nothing can.
Stall ==
    /\ Suspended /\ Pending(Waits) = {} /\ Outside = {}
    /\ drive' = "over" /\ outcome' = "stalled"
    /\ UNCHANGED <<config, wall, backendVars, alarm, handlerVars>>

Wake ==
    /\ drive = "sleeping" /\ (changed \/ wall >= alarm)
    /\ Sync /\ status' = Elapsed(Clock)
    /\ drive' = "loop" /\ Forget /\ alarm' = 0
    /\ UNCHANGED <<config, wall, due, deadline, changed, failures, outcome>>

\* close(), or the end of the runner's context.
Cancel ==
    /\ drive \notin {"over", "cancelled"}
    /\ drive' = "cancelled" /\ Forget /\ alarm' = 0
    /\ UNCHANGED <<config, wall, backendVars, failures, outcome>>

----------------------------------------------------------------------------
(* The outside world, once it knows a callback's identifier                 *)

World == UNCHANGED <<config, wall, driverVars, handlerVars>>
Known(c) == status[c] # "none"
Active(c) == outcome = None /\ Elapsed(Clock)[c] = "STARTED"

\* Faulty variant of Answer: the time is not brought up to date.
AnswerUnsynced(c) ==
    /\ Known(c) /\ outcome = None /\ status[c] = "STARTED"
    /\ \E s \in {"SUCCEEDED", "FAILED"} : status' = [status EXCEPT ![c] = s]
    /\ changed' = TRUE
    /\ UNCHANGED <<now, synced, due, deadline>> /\ World

\* send_callback_success, send_callback_failure
Answer(c) ==
    /\ Known(c) /\ Active(c)
    /\ Sync
    /\ \E s \in {"SUCCEEDED", "FAILED"} : status' = [Elapsed(Clock) EXCEPT ![c] = s]
    /\ changed' = TRUE
    /\ UNCHANGED <<due, deadline>> /\ World

\* Any of the three for a callback that is not active any more: the time is
\* brought up to date before it is refused.
Refuse(c) ==
    /\ Known(c) /\ ~Active(c)
    /\ Sync /\ status' = Elapsed(Clock)
    /\ UNCHANGED <<due, deadline, changed>> /\ World

\* Faulty variant of Heartbeat: the overall timeout is forgotten.
HeartbeatUnbounded(c) ==
    /\ Known(c) /\ Active(c)
    /\ Sync /\ status' = Elapsed(Clock)
    /\ due' = [due EXCEPT ![c] =
                  IF config.beat[c] = 0 THEN @ ELSE Clock + config.beat[c]]
    /\ changed' = TRUE
    /\ UNCHANGED deadline /\ World

\* send_callback_heartbeat
Heartbeat(c) ==
    /\ Known(c) /\ Active(c)
    /\ Sync /\ status' = Elapsed(Clock)
    /\ due' = [due EXCEPT ![c] =
                  IF config.beat[c] = 0 THEN @
                  ELSE Min({Clock + config.beat[c]} \cup ({deadline[c]} \ {None}))]
    /\ changed' = TRUE
    /\ UNCHANGED deadline /\ World

----------------------------------------------------------------------------
HandlerStep ==
    \/ \E o \in Ops : Start(o) \/ Read(o)
    \/ HandlerEnds \/ SkipAhead \/ Sleep \/ Stall
DriverStep == Invoke \/ BudgetSpent \/ Wake

Next ==
    \/ Tick
    \/ \E o \in Ops : Start(o) \/ Read(o)
    \/ Checkpoint \/ HandlerEnds \/ HandlerFails
    \/ Invoke \/ BudgetSpent \/ SkipAhead \/ Sleep \/ Stall \/ Wake \/ Cancel
    \/ \E c \in Callbacks : Answer(c) \/ Refuse(c) \/ Heartbeat(c)

Spec == Init /\ [][Next]_vars

\* Time passes, the loop runs what is ready, handlers end or suspend.
FairSpec == Spec /\ WF_vars(Tick) /\ WF_vars(HandlerStep) /\ WF_vars(DriverStep)

----------------------------------------------------------------------------
(* Properties                                                              *)

Statuses == {"none", "STARTED", "SUCCEEDED", "FAILED", "TIMED_OUT"}

\* Every variable has its type; the backend is never ahead of real time, and
\* the driver goes on after MaxFailures failures at most.
TypeOK ==
    /\ config \in Config
    /\ wall \in 0 .. MaxWall
    /\ now \in Nat
    /\ synced \in 0 .. wall
    /\ status \in [Ops -> Statuses]
    /\ due \in [Ops -> Nat \cup {None}]
    /\ deadline \in [Callbacks -> Nat \cup {None}]
    /\ changed \in BOOLEAN
    /\ drive \in {"loop", "invoking", "sleeping", "over", "cancelled"}
    /\ alarm \in Nat
    /\ failures \in 0 .. MaxFailures + 1
    /\ outcome \in {None, "ended", "failing", "timeout", "stalled"}
    /\ view \in [Ops -> Statuses]
    /\ read \in [Ops -> {"unread", "paused", "done"}]

Final == {"SUCCEEDED", "FAILED", "TIMED_OUT"}

\* A record that is final stays as it is, with answers, timeouts, refused
\* calls and jumps of the clock racing for it.
FinalIsFinal ==
    [][\A o \in Ops : status[o] \in Final => status'[o] = status[o]]_vars

\* An answer counts only before the deadline: one that comes late finds the
\* callback timed out, though the driver has not looked at the clock since.
AnswersInTime ==
    [][\A c \in Callbacks :
          status[c] = "STARTED" /\ status'[c] \in {"SUCCEEDED", "FAILED"}
              => due[c] = None \/ Clock < due[c]]_vars

\* "Refresh an active callback's heartbeat deadline without extending its
\* overall timeout."
HeartbeatsDoNotExtend ==
    \A c \in Callbacks : deadline[c] # None => due[c] # None /\ due[c] <= deadline[c]

\* The driver jumps over no durable timer: each pending wait is resumed at its
\* own moment, however many are pending.
TimersInOrder ==
    [][drive = "invoking" /\ drive' = "loop" /\ now' # now =>
          \A w \in Waits : status[w] = "STARTED" => due[w] >= now']_vars

\* The run comes to an end within its budget, with callbacks nobody answers,
\* handlers that fail and heartbeats that come for ever.
RunEnds == <>(drive \in {"over", "cancelled"})

\* "Deliver a successful result to an active local callback and wake its
\* execution": an answer the handler has not seen wakes the driver.
DeliveryWakes ==
    (\E c \in Callbacks : read[c] = "paused" /\ status[c] \in {"SUCCEEDED", "FAILED"})
        => /\ outcome # "stalled"
           /\ drive = "sleeping" => changed

\* "Overall callback deadline in seconds": a callback is given its seconds from
\* the moment it starts.
CallbackHasItsTime ==
    [][\A c \in Callbacks :
          status[c] = "none" /\ status'[c] = "STARTED" /\ config.timeout[c] # 0
              => deadline'[c] >= Clock + config.timeout[c]]_vars
=============================================================================
