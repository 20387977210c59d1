----------------------------- MODULE MCWorkflow -----------------------------
(* The handlers of the conformance suite and of the examples, and programs   *)
(* that mix what they leave apart: a gather of operations of every kind, a   *)
(* virtual child, a retried body that fails on different operations, errors  *)
(* of the framework, and a gather that leaves a callback behind.             *)
EXTENDS Meaning

C == INSTANCE Conformance
E == INSTANCE Examples

Works == Step(<<"ok">>)
Fails == Attempts(1, Step(<<"user">>))

Mixed ==
    {<<Gather(<<Works, Wait, Invoke>>), Works>>,
     <<Virtual(Child(<<Works, Wait>>)), Works>>,
     <<Gather(<<Child(<<Wait, Works>>), Child(<<Step(<<"user", "ok">>)>>)>>)>>,
     <<WithRetry(3, <<Works, Invoke, Child(<<Raise("user")>>)>>), Wait>>,
     <<Catching(AnyError, WithRetry(2, <<CreateCallback, Wait, Result(1)>>)), Wait>>,
     <<Catching({"permanent"}, Child(<<Raise("permanent")>>)), Wait, Raise("permanent")>>,
     <<Catching({"condition"}, Child(<<Condition(<<"again", "condition">>)>>)), Wait>>,
     <<Child(<<Gather(<<Fails, CreateCallback>>)>>)>>,
     <<Child(<<Gather(<<Works, Wait>>)>>)>>,
     <<Child(<<Gather(<<Child(<<Wait>>), Works>>)>>)>>}

RECURSIVE BodiesIn(_)
BodiesIn(body) ==
    {body} \cup UNION {BodiesIn(operation.body) : operation \in
        {o \in UNION {{Operations(body[i])[k] : k \in DOMAIN Operations(body[i])} :
                      i \in DOMAIN body} : o.op = "child"}}

MCBodies == [body \in Workflows |-> BodiesIn(body)]
MCWorkflows == C!Handlers \cup E!Handlers \cup Mixed

\* A handler that survives the failure of a gather inside a child.
GatherWorkflows ==
    {<<Catching(AnyError, Child(<<Gather(<<Fails, Works>>)>>)), Works>>}

\* Handlers that take the way of whichever of two failures they hear of first.
Either == Catching({"execution"}, Gather(<<Fails, Child(<<Raise("execution")>>)>>))
ChangingWorkflows ==
    {<<Child(<<WithRetry(2, <<Either, Works>>)>>)>>,
     <<WithRetry(2, <<Either, Catching({"state"}, Gather(<<Wait, Child(<<>>)>>))>>)>>}

LogWorkflows == {E!hello_world}
=============================================================================
