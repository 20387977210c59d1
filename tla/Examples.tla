------------------------------ MODULE Examples ------------------------------
(***************************************************************************)
(* The handlers of examples/ that compose operations other than groups,     *)
(* graphs and terminal scopes, as programs.  Each is named after its file;  *)
(* names, payloads, codecs and durations are left out.                      *)
(***************************************************************************)
EXTENDS Programs

Succeeding == Step(<<"ok">>)

----------------------------------------------------------------------------
(* step/, and handlers of steps alone                                      *)

step == <<Succeeding>>
step_no_name == step
step_with_name == step
step_with_exponential_backoff == <<Attempts(3, Succeeding)>>
step_semantics_at_most_once == <<AtMostOnce(Succeeding)>>
step_with_class_methods == <<Succeeding, Succeeding, Succeeding>>
step_with_retry == <<Attempts(3, Step(<<"user", "ok">>))>>
\* The first poll finds nothing, at its second attempt; the second finds the item.
steps_with_retry ==
    <<Attempts(5, Step(<<"user", "ok">>)), Wait, Attempts(5, Succeeding)>>
\* As many items, or steps, as the event says.
steps_with_gather(items) == <<Gather([i \in 1 .. items |-> Succeeding])>>
many_async_steps(steps) ==
    <<Succeeding, Gather([i \in 1 .. steps |-> Succeeding]), Succeeding, Wait,
      Succeeding>>
no_replay_execution == <<Succeeding, Succeeding>>
cloud_sync_client == step
filesystem_serdes_always == <<Succeeding, Wait, Succeeding>>
filesystem_serdes_overflow == <<Succeeding, Succeeding, Wait>>
simple_execution == <<>>
handler_error == <<Raise("user")>>

StepExamples ==
    {step, step_no_name, step_with_name, step_with_exponential_backoff,
     step_semantics_at_most_once, step_with_class_methods, step_with_retry,
     steps_with_retry, no_replay_execution, cloud_sync_client,
     filesystem_serdes_always, filesystem_serdes_overflow, simple_execution,
     handler_error}
    \cup {steps_with_gather(n) : n \in 1 .. 3} \cup {many_async_steps(n) : n \in 0 .. 2}

----------------------------------------------------------------------------
(* wait/, logging, child contexts                                          *)

wait == <<Wait>>
wait_with_name == wait
multiple_wait == <<Wait, Wait>>
hello_world == <<Succeeding, Wait, Log, Succeeding>>
logger_example ==
    <<Log, Succeeding, Succeeding, Log, Child(<<Log, Succeeding, Log>>), Log>>
none_results == <<Succeeding, Child(<<>>), Wait>>
block_example == <<Child(<<Succeeding, Child(<<Wait>>)>>)>>
run_in_child_context == <<Child(<<Succeeding>>)>>
run_in_child_context_large_data == <<Child([i \in 1 .. 5 |-> Succeeding]), Wait>>
run_in_child_context_step_failure ==
    <<Catching(AnyError, Child(<<Attempts(3, Step(<<"user">>))>>)), Wait>>
many_async_child_context(steps) ==
    <<Succeeding, Gather([i \in 1 .. steps |-> Child(<<Succeeding>>)]), Succeeding,
      Wait, Succeeding>>

ScopeExamples ==
    {wait, wait_with_name, multiple_wait, hello_world, logger_example,
     none_results, block_example, run_in_child_context,
     run_in_child_context_large_data, run_in_child_context_step_failure}
    \cup {many_async_child_context(n) : n \in 0 .. 2}

----------------------------------------------------------------------------
(* invoke/, callback/, wait_for_callback/, wait_for_condition/, with_retry/  *)

invoke == <<Invoke>>
price_order_child == <<>>
\* Quicksort of values of which so many are on each side of the pivot.
recurse(left, right) ==
    (IF left > 1 THEN <<Recurse(TRUE)>> ELSE <<>>)
    \o (IF right > 1 THEN <<Recurse(TRUE)>> ELSE <<>>)
callback_simple == <<CreateCallback, Result(1)>>
callback_heartbeat == callback_simple
callback_serdes == callback_simple
\* The handler returns without the callback's result.
callback_with_timeout == <<CreateCallback>>
callback_mixed_ops == <<Succeeding, CreateCallback, Wait, Result(1)>>
wait_for_callback == <<WaitForCallback(Succeeding)>>
wait_for_callback_anonymous == wait_for_callback
wait_for_callback_heartbeat == wait_for_callback
wait_for_callback_serdes == wait_for_callback
wait_for_callback_timeout == <<Catching(AnyError, WaitForCallback(Succeeding))>>
wait_for_callback_child ==
    <<WaitForCallback(Succeeding), Child(<<Wait, WaitForCallback(Succeeding)>>)>>
wait_for_callback_nested ==
    <<WaitForCallback(Succeeding),
      Child(<<WaitForCallback(Succeeding),
              Child(<<Wait, WaitForCallback(Succeeding)>>)>>)>>
wait_for_callback_mixed_ops ==
    <<Wait, Succeeding, WaitForCallback(Succeeding), Wait, Succeeding>>
wait_for_callback_multiple_invocations ==
    <<Wait, WaitForCallback(Succeeding), Succeeding, Wait, WaitForCallback(Succeeding)>>
wait_for_callback_submitter_failure ==
    <<WaitForCallback(Attempts(3, Step(<<"user">>)))>>
wait_for_callback_submitter_failure_catchable ==
    <<Catching(AnyError, WaitForCallback(Attempts(3, Step(<<"user">>))))>>
wait_for_condition == <<Condition(<<"again", "again", "ok">>)>>
with_retry_callback == <<WithRetry(5, <<WaitForCallback(Succeeding)>>)>>

OutsideExamples ==
    {invoke, price_order_child, callback_simple, callback_heartbeat,
     callback_serdes, callback_with_timeout, callback_mixed_ops,
     wait_for_callback, wait_for_callback_anonymous,
     wait_for_callback_heartbeat, wait_for_callback_serdes,
     wait_for_callback_timeout, wait_for_callback_child,
     wait_for_callback_nested, wait_for_callback_mixed_ops,
     wait_for_callback_multiple_invocations,
     wait_for_callback_submitter_failure,
     wait_for_callback_submitter_failure_catchable, wait_for_condition,
     with_retry_callback}
    \cup {recurse(l, r) : l \in 0 .. 2, r \in 0 .. 2}

Handlers == StepExamples \cup ScopeExamples \cup OutsideExamples
=============================================================================
