------------------------------ MODULE Programs ------------------------------
(***************************************************************************)
(* Durable programs as data: what a handler composes from the operations of *)
(* _effects.py.  A body is a sequence of statements; a statement awaits one *)
(* operation (or a gather of several), and names the errors the handler's   *)
(* try around it catches.  What a callable computes is abstracted to how    *)
(* each of its attempts ends.                                               *)
(***************************************************************************)
EXTENDS Naturals, Sequences, FiniteSets

----------------------------------------------------------------------------
(* Errors                                                                  *)

\* InvocationError and StepInterruptedError suspend the judgement of the
\* execution; PermanentInvocation does not; the others are logical failures.
Retryable == {"invocation", "interrupted"}
InvocationErrors == Retryable \cup {"permanent"}
\* ExecutionError and its SDK subclasses, and SerDesError.
ExecutionErrors == {"execution", "callback", "condition"}
\* What user code raises, what a replayed failure of it raises, and
\* InvalidStateError.
Others == {"user", "callable", "state"}
Errors == InvocationErrors \cup ExecutionErrors \cup Others
\* except Exception
AnyError == Errors

\* error_record then raise_record: the class a recorded error is raised with.
Recorded(e) ==
    IF e \in ExecutionErrors \cup {"permanent"} THEN e ELSE "callable"

----------------------------------------------------------------------------
(* Statements                                                              *)

\* step(): how attempt n of the callable ends is runs[n], the last entry for
\* every later one: "ok", an error, "exit" (the process dies in it), or
\* "exit_if_new" (it dies unless its scope was entered with a record).
Step(runs) ==
    [op |-> "step", runs |-> runs, max |-> 6, once |-> FALSE, catch |-> {}]
Attempts(n, step) == [step EXCEPT !.max = n]
AtMostOnce(step) == [step EXCEPT !.once = TRUE]

\* wait_for_condition() and the step of an extension: a check that ends with
\* "again" is scheduled anew with its state, one that raises ends the step.
Condition(runs) == [op |-> "condition", runs |-> runs, once |-> FALSE, catch |-> {}]

Wait == [op |-> "wait", catch |-> {}]
Invoke == [op |-> "invoke", catch |-> {}]
CreateCallback == [op |-> "callback", catch |-> {}]
\* result() of the n-th callback the body created.
Result(n) == [op |-> "result", of |-> n, catch |-> {}]
\* Plain code of the handler that raises.
Raise(e) == [op |-> "raise", error |-> e, catch |-> {}]

\* run_in_child_context(); is_virtual keeps no record of the child itself.
Child(body) ==
    [op |-> "child", body |-> body, virtual |-> FALSE, tries |-> 0, catch |-> {}]
Virtual(child) == [child EXCEPT !.virtual = TRUE]
\* with_retry(): a child whose body runs up to n times, with a wait between.
WithRetry(n, body) == [Child(body) EXCEPT !.tries = n]
\* wait_for_callback(): a child that creates a callback, submits it, reads it.
WaitForCallback(submitter) == Child(<<CreateCallback, submitter, Result(1)>>)

\* A call of logging in the handler or in a child's body.
Log == [op |-> "log", catch |-> {}]

\* Several operation tasks started together and awaited with asyncio.gather.
Gather(parts) == [op |-> "gather", parts |-> parts, catch |-> {}]

\* try: ... except the errors of E.
Catching(errors, statement) == [statement EXCEPT !.catch = errors]

\* Operations a statement starts, in the order it reserves them.
Operations(statement) ==
    IF statement.op = "gather" THEN statement.parts ELSE <<statement>>

\* now(), timestamp(), random(), uuid(): a step that reads once.
Reading == Step(<<"ok">>)
\* recurse(): an invocation of the function itself, refused for an unchanged
\* input before anything is reserved.
Recurse(changed) == IF changed THEN Invoke ELSE Raise("user")

----------------------------------------------------------------------------
(* What a body is made of, whose children's bodies are among those given    *)

AttemptEnds == {"ok", "again", "exit", "exit_if_new"} \cup Errors
OperationsOver(bodies) ==
    [op : {"step"}, runs : Seq(AttemptEnds) \ {<<>>}, max : Nat \ {0}, once : BOOLEAN,
     catch : SUBSET Errors]
    \cup [op : {"condition"}, runs : Seq(AttemptEnds) \ {<<>>}, once : {FALSE},
          catch : SUBSET Errors]
    \cup [op : {"wait", "invoke", "callback"}, catch : SUBSET Errors]
    \cup [op : {"child"}, body : bodies, virtual : BOOLEAN, tries : Nat,
          catch : SUBSET Errors]
StatementsOver(bodies) ==
    OperationsOver(bodies)
    \cup [op : {"gather"}, parts : Seq(OperationsOver(bodies)), catch : SUBSET Errors]
    \cup [op : {"result"}, of : Nat \ {0}, catch : SUBSET Errors]
    \cup [op : {"raise"}, error : Errors, catch : SUBSET Errors]
    \cup [op : {"log"}, catch : SUBSET Errors]

\* The callbacks a body has created before statement i.
Created(body, i) == {j \in 1 .. i - 1 : body[j].op = "callback"}

\* A body reads only callbacks it has created, and does not go on without one.
IsBody(body, bodies) ==
    /\ body \in Seq(StatementsOver(bodies))
    /\ \A i \in DOMAIN body : body[i].op = "result" =>
          /\ body[i].of <= Cardinality(Created(body, i))
          /\ \A j \in Created(body, i) : "state" \notin body[j].catch

\* The end of the attempt: the last entry stands for the rest.
RunOf(statement, attempt) ==
    LET n == Len(statement.runs)
    IN statement.runs[IF attempt <= n THEN attempt ELSE n]
=============================================================================
