-------------------------------- MODULE Flow --------------------------------
(***************************************************************************)
(* A flow (_graph.py, flow and execute_plan) over the invocations of an     *)
(* execution.                                                               *)
(*                                                                         *)
(* The scheduler scans the live nodes in their order.  A node whose         *)
(* expression is decided has the decision made durable (a step of its own)  *)
(* and is then launched, to run or to be skipped; the scheduler waits for   *)
(* launched nodes and scans again.  A later invocation takes the decisions  *)
(* from their records, whatever it has seen by then, and launches a node    *)
(* when it has the results the decision was made on.                        *)
(*                                                                         *)
(* A node's body is a durable wait (or none) and then its fate; a           *)
(* retryable InvocationError may come in between.  Its scope is abstracted  *)
(* to a record that starts and then holds the node's result (Terminal).  A  *)
(* body that raises an ExecutionError, a SerDesError or a permanent         *)
(* InvocationError has no result: it fails its scope and the flow.          *)
(***************************************************************************)
EXTENDS Plan

CONSTANTS
    Count,           \* declared nodes
    Plans,           \* the graphs considered: [guard, outputs]
    MaxCrashes,      \* bound: crashes of an invocation
    MaxInterrupts,   \* bound: InvocationErrors out of node bodies
    None

Node == 1 .. Count
Kind == {"OUTCOME", "ERROR", "RESULT"}
Deps(plan) == [n \in Node |-> Sources(plan.guard[n])]
LiveOf(plan) == LiveNodes(Count, Deps(plan), {o.node : o \in plan.outputs})

\* compile has accepted the plans: no node twice in an expression, no cycle.
Accepted(plan) ==
    /\ \A n \in Node :
          /\ IsExpression(plan.guard[n], Node \ {n})
          /\ \A i, j \in Positions(plan.guard[n], "LEAF") :
                plan.guard[n][i].node = plan.guard[n][j].node => i = j
    /\ plan.outputs \subseteq [node : Node, kind : Kind]
    /\ ~HasCycle(Count, Deps(plan))

ASSUME FlowAssumption ==
    /\ Count \in Nat \ {0}
    /\ \A plan \in Plans : Accepted(plan)
    /\ {MaxCrashes, MaxInterrupts} \subseteq Nat

VARIABLES
    plan, live,          \* the graph and its live nodes, in order
    fate, waits,         \* what the bodies do
    \* the invocation
    scan,                \* "off", "scanning", "deciding", "waiting", "ending" or "over"
    place,               \* the place of the scan in live
    task,                \* the scope task of each node
    results, handled, launched, paused,
    chosen,              \* the decision about to be recorded, or followed for each node
    \* the records
    guards, record, timer, flow,
    \* budgets
    crashes, interrupts

planVars == <<plan, live, fate, waits>>
localVars == <<scan, place, task, results, handled, launched, paused, chosen>>
recordVars == <<guards, record, timer, flow>>
budgetVars == <<crashes, interrupts>>
vars == <<planVars, localVars, recordVars, budgetVars>>

Live == {live[i] : i \in DOMAIN live}
Undecided == [status |-> "none", matched |-> FALSE, selected |-> {}, handled |-> {}]
Idle == [n \in Node |-> "idle"]
Nothing == [n \in Node |-> Unsettled]

\* The body of a node ends as its fate says, or does not run.
Outcomes == Settled \cup {"BROKEN"}
Fates == {"SUCCEEDED", "FAILED", "BROKEN"}

Init ==
    /\ plan \in Plans /\ live = LiveOf(plan)
    /\ fate \in [Node -> Fates]
    /\ waits \in [Node -> BOOLEAN]
    /\ \A n \in Node \ Live : fate[n] = "SUCCEEDED" /\ ~waits[n]
    /\ scan = "off" /\ place = 1 /\ task = Idle /\ results = Nothing
    /\ handled = {} /\ launched = {} /\ paused = {}
    /\ chosen = [n \in Node |-> Undecided]
    /\ guards = [n \in Node |-> Undecided]
    /\ record = [n \in Node |-> "none"]
    /\ timer = [n \in Node |-> "none"]
    /\ flow = None
    /\ crashes = 0 /\ interrupts = 0

----------------------------------------------------------------------------
(* The scheduler (execute_plan)                                            *)

\* As if a node that has paused stayed among those awaited.
ActiveOrPaused == {n \in launched : results[n] = Unsettled}

Active == {n \in launched : results[n] = Unsettled} \ paused
Raises == {"interrupted", "broken"}
Ended == {"done", "paused"} \cup Raises
Known(set) == \A n \in set : results[n] # Unsettled

Forget ==
    /\ place' = 1 /\ task' = Idle /\ results' = Nothing
    /\ handled' = {} /\ launched' = {} /\ paused' = {}
    /\ chosen' = [n \in Node |-> Undecided]

Invoke ==
    /\ scan = "off" /\ flow = None
    /\ scan' = "scanning"
    /\ Forget
    /\ UNCHANGED <<planVars, recordVars, budgetVars>>

\* As if what is open were decided.
PassesDecided(n) ==
    \/ n \in launched
    \/ guards[n].status = "SUCCEEDED" /\ ~Known(guards[n].selected)

\* The node at the scan's place is launched already, waits for the results its
\* decision was made on, or has an expression that is still open.
Passes(n) ==
    \/ n \in launched
    \/ guards[n].status = "SUCCEEDED" /\ ~Known(guards[n].selected)
    \/ guards[n].status # "SUCCEEDED" /\ Evaluate(plan.guard[n], results).matched = "open"

Pass ==
    /\ scan = "scanning" /\ place <= Len(live)
    /\ Passes(live[place])
    /\ place' = place + 1
    /\ UNCHANGED <<planVars, scan, task, results, handled, launched, paused, chosen,
                   recordVars, budgetVars>>

\* The decision on a node: what its expression says, on the results there are.
Decision(n) ==
    LET value == Evaluate(plan.guard[n], results) IN
    [status |-> "SUCCEEDED", matched |-> value.matched = "yes",
     selected |-> {m \in Sources(plan.guard[n]) : results[m] # Unsettled},
     handled |-> value.handled]

\* As if the decision were made anew in every invocation.
DecideAnew ==
    /\ scan = "scanning" /\ place <= Len(live)
    /\ LET n == live[place] IN
       /\ ~Passes(n)
       /\ scan' = "deciding"
       /\ chosen' = [chosen EXCEPT ![n] = Decision(n)]
    /\ UNCHANGED <<planVars, place, task, results, handled, launched, paused,
                   recordVars, budgetVars>>

\* The decision is taken from its record, or made; a step carries it.
Decide ==
    /\ scan = "scanning" /\ place <= Len(live)
    /\ LET n == live[place] IN
       /\ ~Passes(n)
       /\ scan' = "deciding"
       /\ chosen' = [chosen EXCEPT ![n] = IF guards[n].status = "SUCCEEDED" THEN guards[n]
                                          ELSE Decision(n)]
    /\ UNCHANGED <<planVars, place, task, results, handled, launched, paused,
                   recordVars, budgetVars>>

\* The step's START, and its SUCCEED with the decision.
Record ==
    /\ scan = "deciding"
    /\ LET n == live[place] IN
       /\ guards[n].status # "SUCCEEDED"
       /\ guards' = [guards EXCEPT ![n] = IF guards[n].status = "none"
                                          THEN [Undecided EXCEPT !.status = "STARTED"]
                                          ELSE chosen[n]]
    /\ UNCHANGED <<planVars, localVars, record, timer, flow, budgetVars>>

\* As if a node were launched while its decision is being written.
LaunchEarly ==
    /\ scan = "deciding"
    /\ LET n == live[place] IN
       /\ launched' = launched \cup {n}
       /\ handled' = handled \cup chosen[n].handled
       /\ task' = [task EXCEPT ![n] = "running"]
    /\ scan' = "scanning" /\ place' = place + 1
    /\ UNCHANGED <<planVars, results, paused, chosen, recordVars, budgetVars>>

\* The decision is durable: the node is launched.
Launch ==
    /\ scan = "deciding"
    /\ LET n == live[place] IN
       /\ guards[n].status = "SUCCEEDED"
       /\ launched' = launched \cup {n}
       /\ handled' = handled \cup chosen[n].handled
       /\ task' = [task EXCEPT ![n] = "running"]
    /\ scan' = "scanning" /\ place' = place + 1
    /\ UNCHANGED <<planVars, results, paused, chosen, recordVars, budgetVars>>

\* The scan is through and something is active.
Await ==
    /\ scan = "scanning" /\ place > Len(live) /\ Active # {}
    /\ scan' = "waiting"
    /\ UNCHANGED <<planVars, place, task, results, handled, launched, paused, chosen,
                   recordVars, budgetVars>>

\* asyncio.wait returns: the results and pauses of every task that has ended,
\* and another scan.
Collect ==
    /\ scan = "waiting"
    /\ LET completed == {n \in Active : task[n] \in Ended} IN
       /\ completed # {}
       /\ \A n \in completed : task[n] \notin Raises
       /\ results' = [n \in Node |-> IF n \in completed /\ task[n] = "done"
                                     THEN record[n] ELSE results[n]]
       /\ paused' = paused \cup {n \in completed : task[n] = "paused"}
    /\ scan' = IF \E n \in Live : results'[n] = Unsettled THEN "scanning" ELSE "ending"
    /\ place' = 1
    /\ UNCHANGED <<planVars, task, handled, launched, chosen, recordVars, budgetVars>>

\* Nothing is active and nodes are paused: the flow suspends.
Suspend ==
    /\ scan = "scanning" /\ place > Len(live) /\ Active = {} /\ paused # {}
    /\ scan' = "off"
    /\ Forget
    /\ UNCHANGED <<planVars, recordVars, budgetVars>>

\* The first of the nodes that have ended with an error leaves the loop by it, and
\* what is active is cancelled.
RaisedFirst(state) ==
    \E n \in Active : /\ task[n] = state
                      /\ \A m \in Active : m < n => task[m] \notin Raises

\* A retryable error ends the invocation.
Fail ==
    /\ scan = "waiting" /\ RaisedFirst("interrupted")
    /\ scan' = "off"
    /\ Forget
    /\ UNCHANGED <<planVars, recordVars, budgetVars>>

\* Another one fails the scope of the flow, which has no results then.
Break ==
    /\ scan = "waiting" /\ RaisedFirst("broken")
    /\ scan' = "over"
    /\ flow' = [results |-> Nothing, unhandled |-> {}, unavailable |-> {}]
    /\ UNCHANGED <<planVars, place, task, results, handled, launched, paused, chosen,
                   guards, record, timer, budgetVars>>

\* The result of the flow, which its scope makes durable.  A flow without
\* outputs has no live nodes.
Final(n) == IF results[n] = Unsettled THEN "SKIPPED" ELSE results[n]
Outputs(kinds) == {o.node : o \in {p \in plan.outputs : p.kind \in kinds}}
Report ==
    /\ \/ scan = "ending"
       \/ scan = "scanning" /\ live = <<>>
    /\ scan' = "over"
    /\ flow' = [results |-> [n \in Node |-> Final(n)],
                unhandled |-> {n \in Node : Final(n) = "FAILED"}
                                 \ (handled \cup Outputs({"RESULT", "ERROR"})),
                unavailable |-> {n \in Outputs({"OUTCOME"}) : Final(n) # "SUCCEEDED"}]
    /\ UNCHANGED <<planVars, place, task, results, handled, launched, paused, chosen,
                   guards, record, timer, budgetVars>>

Crash ==
    /\ scan \notin {"off", "over"} /\ crashes < MaxCrashes
    /\ crashes' = crashes + 1
    /\ scan' = "off"
    /\ Forget
    /\ UNCHANGED <<planVars, recordVars, interrupts>>

----------------------------------------------------------------------------
(* The nodes (activate, under scope_effect)                                *)

Becomes(n, state) == task' = [task EXCEPT ![n] = state]
Rest == <<planVars, scan, place, results, handled, launched, paused, chosen, guards, flow,
          budgetVars>>

Ending(value) == IF value = "BROKEN" THEN "broken" ELSE "done"

\* The node's record starts, or replays the end it holds.
Enter(n) ==
    /\ task[n] = "running"
    /\ IF record[n] \in Outcomes
       THEN Becomes(n, Ending(record[n])) /\ UNCHANGED record
       ELSE Becomes(n, "body") /\ record' = [record EXCEPT ![n] = "STARTED"]
    /\ UNCHANGED <<Rest, timer>>

\* The wait in the body.
Pause(n) ==
    /\ task[n] = "body" /\ chosen[n].matched /\ waits[n] /\ timer[n] # "SUCCEEDED"
    /\ Becomes(n, "paused")
    /\ timer' = [timer EXCEPT ![n] = "STARTED"]
    /\ UNCHANGED <<Rest, record>>

\* The body ends, or the node is skipped, and its scope commits what came of it.
Finish(n) ==
    /\ task[n] = "body"
    /\ chosen[n].matched /\ waits[n] => timer[n] = "SUCCEEDED"
    /\ record' = [record EXCEPT ![n] = IF chosen[n].matched THEN fate[n] ELSE "SKIPPED"]
    /\ Becomes(n, Ending(record'[n]))
    /\ UNCHANGED <<Rest, timer>>

\* control_error: the body raises a retryable InvocationError.
Interrupt(n) ==
    /\ task[n] = "body" /\ chosen[n].matched /\ interrupts < MaxInterrupts
    /\ interrupts' = interrupts + 1
    /\ Becomes(n, "interrupted")
    /\ UNCHANGED <<planVars, scan, place, results, handled, launched, paused, chosen,
                   recordVars, crashes>>

\* Time passes between invocations.
Elapse(n) ==
    /\ scan = "off" /\ timer[n] = "STARTED"
    /\ timer' = [timer EXCEPT ![n] = "SUCCEEDED"]
    /\ UNCHANGED <<planVars, localVars, guards, record, flow, budgetVars>>

Schedule == Pass \/ Decide \/ Record \/ Launch \/ Await \/ Collect \/ Suspend \/ Fail \/ Break
            \/ Report
NodeStep(n) == Enter(n) \/ Pause(n) \/ Finish(n)

Next ==
    \/ Invoke \/ Schedule \/ Crash
    \/ \E n \in Node : NodeStep(n) \/ Interrupt(n) \/ Elapse(n)

Spec == Init /\ [][Next]_vars

\* The loop runs what is ready, the backend answers, a timer elapses however
\* often the execution is invoked meanwhile.  Nothing makes a crash or an
\* InvocationError happen.
FairSpec ==
    /\ Spec
    /\ WF_vars(Invoke) /\ WF_vars(Schedule)
    /\ \A n \in Node : WF_vars(NodeStep(n)) /\ SF_vars(Elapse(n))

----------------------------------------------------------------------------
(* Properties                                                              *)

Decided == [status : {"none", "STARTED", "SUCCEEDED"}, matched : BOOLEAN,
            selected : SUBSET Node, handled : SUBSET Node]

\* Every variable has its type; what the scheduler holds as a result is the
\* result the node's record holds, and a paused node has none.
TypeOK ==
    /\ plan \in Plans /\ live = LiveOf(plan)
    /\ fate \in [Node -> Fates] /\ waits \in [Node -> BOOLEAN]
    /\ scan \in {"off", "scanning", "deciding", "waiting", "ending", "over"}
    /\ place \in 1 .. Len(live) + 1
    /\ task \in [Node -> {"idle", "running", "body"} \cup Ended]
    /\ results \in [Node -> Settled \cup {Unsettled}]
    /\ \A n \in Node : results[n] # Unsettled => record[n] = results[n] /\ n \notin paused
    /\ paused \subseteq launched /\ launched \subseteq Live /\ handled \subseteq Node
    /\ chosen \in [Node -> Decided] /\ guards \in [Node -> Decided]
    /\ record \in [Node -> Outcomes \cup {"none", "STARTED"}]
    /\ timer \in [Node -> {"none", "STARTED", "SUCCEEDED"}]
    /\ crashes \in 0 .. MaxCrashes /\ interrupts \in 0 .. MaxInterrupts

\* A node that is launched, in whatever invocation, follows the decision its
\* guard's record holds, with the same inputs and the same handled failures,
\* and the invocation has those inputs (decisions persist across replay).
DecisionIsRecorded ==
    \A n \in launched :
        /\ guards[n].status = "SUCCEEDED" /\ chosen[n] = guards[n]
        /\ Known(guards[n].selected)

\* Whether an expression holds of settled results: plain Boolean logic.
Holds(guard, found) ==
    LET true[i \in DOMAIN guard] ==
            IF guard[i].op = "LEAF"
            THEN found[guard[i].node] \in (IF guard[i].condition = "COMPLETED" THEN Settled
                                           ELSE {guard[i].condition})
            ELSE IF guard[i].op = "ANY" THEN true[guard[i].left] \/ true[guard[i].right]
                 ELSE true[guard[i].left] /\ true[guard[i].right]
    IN  guard = <<>> \/ true[Len(guard)]

\* What the graph means: a node runs if its expression holds of the results of
\* the nodes it depends on, each at its end, and is skipped if it does not.  No
\* expression holds of a node that is broken, which has no result.
Meaning(graph, fates) ==
    LET order == LiveOf(graph)
        upto[i \in 0 .. Len(order)] ==
            IF i = 0 THEN [n \in Node |-> Unsettled]
            ELSE LET before == upto[i - 1]
                     ends == IF Holds(graph.guard[order[i]], before)
                             THEN fates[order[i]] ELSE "SKIPPED"
                 IN  [before EXCEPT ![order[i]] = ends]
    IN  [n \in Node |-> IF n \in {order[i] : i \in DOMAIN order}
                        THEN upto[Len(order)][n] ELSE "SKIPPED"]

\* The results of a flow are what the graph means, whatever order its nodes
\* ended in, however they paused, and however often it was interrupted; it fails
\* without results exactly if a node that must run is broken.
Expected ==
    LET meaning == Meaning(plan, fate) IN
    IF \E n \in Node : meaning[n] = "BROKEN" THEN Nothing ELSE meaning
ResultIsMeaning == flow # None => flow.results = Expected

\* A flow reports a failure as unhandled unless an output asks for it or a node
\* ran on it, and never one without which a node would not have run.
FailuresAccounted ==
    flow # None =>
        \A n \in Node : flow.results[n] = "FAILED" =>
            LET ran == {m \in Live : flow.results[m] # "SKIPPED"}
                asked == n \in Outputs({"RESULT", "ERROR"})
            IN  /\ n \notin flow.unhandled =>
                        asked \/ \E m \in ran : Leaf(n, "FAILED") \in Leaves(plan.guard[m])
                /\ n \in flow.unhandled => ~asked /\
                        \A m \in ran : Leaf(n, "FAILED") \in Leaves(plan.guard[m]) =>
                            Holds(plan.guard[m], [flow.results EXCEPT ![n] = Unsettled])

\* A flow ends: what pauses is resumed and what is decided is not decided again.
FlowEnds == <>(scan = "over")
=============================================================================
