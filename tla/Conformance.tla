----------------------------- MODULE Conformance -----------------------------
(***************************************************************************)
(* The handlers of the conformance suite (conformance/), as programs.  Each *)
(* is named after its file.  The suite runs a handler in one scenario of    *)
(* its own; here callbacks, timers and chained invocations end in every way *)
(* they can, and the process may die anywhere.                              *)
(*                                                                         *)
(* Names, payloads, codecs, durations and time-outs are left out: handlers  *)
(* that differ in nothing else are the same program.                        *)
(***************************************************************************)
EXTENDS Programs

\* RetryStrategy.none() around a callable that raises.
Failing == Attempts(1, Step(<<"user">>))
Succeeding == Step(<<"ok">>)
\* A check that is satisfied the n-th time.
Polling(n) == Condition([i \in 1 .. n |-> IF i < n THEN "again" ELSE "ok"])

----------------------------------------------------------------------------
(* step/                                                                   *)

step_basic == <<Succeeding>>
step_complex_object == step_basic
step_custom_serdes == step_basic
step_logging == step_basic
step_null_result == step_basic
step_with_name == step_basic
step_nested == <<Succeeding, Succeeding>>
step_and_wait_replay == <<Succeeding, Wait>>
step_replay_skips_succeeded == step_and_wait_replay
step_with_error == <<Failing>>
step_error_caught == <<Catching(AnyError, Failing), Succeeding>>
step_replay_rethrows_failed == <<Catching(AnyError, Failing), Wait>>
step_default_retry == <<Step(<<"user", "user", "ok">>)>>
step_retry_custom_config == <<Attempts(5, Step(<<"user", "user", "ok">>))>>
step_with_retry == <<Attempts(3, Step(<<"user", "ok">>))>>
step_retry_specific_exception == step_with_retry
step_retry_exhaustion == <<Attempts(4, Step(<<"user">>))>>
\* The error is not among the retryable ones.
step_retry_non_retryable == <<Failing>>
step_at_most_once_no_retry == <<AtMostOnce(Attempts(1, Step(<<"exit">>)))>>
step_at_most_once_with_retry == <<AtMostOnce(Attempts(3, Step(<<"exit", "ok">>)))>>

StepHandlers ==
    {step_basic, step_complex_object, step_custom_serdes, step_logging,
     step_null_result, step_with_name, step_nested, step_and_wait_replay,
     step_replay_skips_succeeded, step_with_error, step_error_caught,
     step_replay_rethrows_failed, step_default_retry, step_retry_custom_config,
     step_with_retry, step_retry_specific_exception, step_retry_exhaustion,
     step_retry_non_retryable, step_at_most_once_no_retry,
     step_at_most_once_with_retry}

----------------------------------------------------------------------------
(* wait/                                                                   *)

wait_basic == <<Wait>>
wait_duration_units == wait_basic
wait_long_duration == wait_basic
wait_with_name == wait_basic
wait_multiple_sequential == <<Wait, Wait>>

WaitHandlers == {wait_basic, wait_duration_units, wait_long_duration,
                 wait_with_name, wait_multiple_sequential}

----------------------------------------------------------------------------
(* child/                                                                  *)

child_basic == <<Child(<<Succeeding>>)>>
child_custom_serdes == child_basic
child_with_name == child_basic
child_multiple_steps == <<Child(<<Succeeding, Succeeding>>)>>
child_nested == <<Child(<<Succeeding, Child(<<Succeeding>>)>>)>>
child_null_result == <<Child(<<>>)>>
child_print_only == <<Child(<<>>), Wait>>
child_replay == <<Child(<<Succeeding>>), Wait>>
child_large_payload == child_replay
child_step_and_wait == <<Child(<<Succeeding, Wait>>)>>
child_step_wait_after == <<Child(<<Succeeding, Wait>>), Succeeding, Wait>>
child_wait_replay == <<Child(<<Wait>>), Succeeding>>
child_error == <<Child(<<Failing>>)>>
child_error_caught == <<Catching(AnyError, Child(<<Failing>>)), Succeeding>>
child_error_no_step == <<Child(<<Raise("user")>>)>>
child_retry == <<Child(<<Attempts(3, Step(<<"user", "ok">>))>>)>>
child_retry_exhaustion == <<Child(<<Attempts(2, Step(<<"user">>))>>)>>
\* The step kills the process unless its child is replaying.
child_interrupted == <<Child(<<Attempts(1, Step(<<"exit_if_new">>))>>)>>

ChildHandlers ==
    {child_basic, child_custom_serdes, child_with_name, child_multiple_steps,
     child_nested, child_null_result, child_print_only, child_replay,
     child_large_payload, child_step_and_wait, child_step_wait_after,
     child_wait_replay, child_error, child_error_caught, child_error_no_step,
     child_retry, child_retry_exhaustion, child_interrupted}

----------------------------------------------------------------------------
(* callback/                                                               *)

callback_basic == <<CreateCallback, Result(1)>>
callback_failure == callback_basic
callback_heartbeat_success == callback_basic
callback_heartbeat_timeout == callback_basic
callback_serdes_happy == callback_basic
callback_serdes_numeric == callback_basic
callback_timeout == callback_basic
callback_with_name == callback_basic
callback_step_failure == <<CreateCallback, Succeeding, Result(1)>>
callback_step_timeout == callback_step_failure
callback_wait_success == <<CreateCallback, Wait, Result(1)>>
callback_wait_failure == callback_wait_success
callback_wait_timeout == callback_wait_success
callback_replay_with_wait == <<CreateCallback, Result(1), Wait>>
callback_replay_failure == <<CreateCallback, Catching(AnyError, Result(1)), Wait>>
callback_replay_timeout == callback_replay_failure
callback_two_parallel == <<CreateCallback, CreateCallback, Result(1), Result(2)>>
callback_two_parallel_reverse ==
    <<CreateCallback, CreateCallback, Result(2), Result(1)>>
callback_two_sequential == <<CreateCallback, Result(1), CreateCallback, Result(2)>>

CallbackHandlers ==
    {callback_basic, callback_failure, callback_heartbeat_success,
     callback_heartbeat_timeout, callback_serdes_happy, callback_serdes_numeric,
     callback_timeout, callback_with_name, callback_step_failure,
     callback_step_timeout, callback_wait_success, callback_wait_failure,
     callback_wait_timeout, callback_replay_with_wait, callback_replay_failure,
     callback_replay_timeout, callback_two_parallel,
     callback_two_parallel_reverse, callback_two_sequential}

----------------------------------------------------------------------------
(* invoke/, the functions invoked included                                 *)

invoke_basic == <<Invoke>>
invoke_complex_object == invoke_basic
invoke_custom_payload_serdes == invoke_basic
invoke_custom_result_serdes == invoke_basic
invoke_large_payload == invoke_basic
invoke_null_result == invoke_basic
invoke_target_fails == invoke_basic
invoke_timeout == invoke_basic
invoke_with_name == invoke_basic
invoke_with_tenant_id == invoke_basic
invoke_in_child_context == <<Child(<<Invoke>>)>>
invoke_multiple_sequential == <<Invoke, Invoke>>
invoke_replay_skips == <<Invoke, Wait>>
invoke_replay_rethrows == <<Catching(AnyError, Invoke), Wait>>
invoke_target_fails_caught == <<Catching(AnyError, Invoke)>>
invoke_timeout_caught == invoke_target_fails_caught
invoke_then_step == <<Invoke, Succeeding>>
step_then_invoke == <<Succeeding, Invoke>>
target_echo == <<Wait>>
target_error == <<Wait, Raise("user")>>
target_slow == <<>>

InvokeHandlers ==
    {invoke_basic, invoke_complex_object, invoke_custom_payload_serdes,
     invoke_custom_result_serdes, invoke_large_payload, invoke_null_result,
     invoke_target_fails, invoke_timeout, invoke_with_name,
     invoke_with_tenant_id, invoke_in_child_context,
     invoke_multiple_sequential, invoke_replay_skips, invoke_replay_rethrows,
     invoke_target_fails_caught, invoke_timeout_caught, invoke_then_step,
     step_then_invoke, target_echo, target_error, target_slow}

----------------------------------------------------------------------------
(* wait_for_callback/                                                      *)

wait_for_callback_basic == <<WaitForCallback(Succeeding)>>
wait_for_callback_anonymous == wait_for_callback_basic
wait_for_callback_explicit_name == wait_for_callback_basic
wait_for_callback_external_failure == wait_for_callback_basic
wait_for_callback_heartbeat_then_success == wait_for_callback_basic
wait_for_callback_heartbeat_timeout == wait_for_callback_basic
wait_for_callback_json_result == wait_for_callback_basic
wait_for_callback_null_result == wait_for_callback_basic
wait_for_callback_timeout == wait_for_callback_basic
wait_for_callback_failure_caught == <<Catching(AnyError, WaitForCallback(Succeeding))>>
wait_for_callback_timeout_caught == wait_for_callback_failure_caught
wait_for_callback_in_child_context == <<Child(<<WaitForCallback(Succeeding)>>)>>
wait_for_callback_mixed_ops == <<Wait, Succeeding, WaitForCallback(Succeeding)>>
wait_for_callback_submitter_retry_exhaustion ==
    <<WaitForCallback(Attempts(2, Step(<<"user">>)))>>
wait_for_callback_two_sequential ==
    <<WaitForCallback(Succeeding), WaitForCallback(Succeeding)>>

WaitForCallbackHandlers ==
    {wait_for_callback_basic, wait_for_callback_anonymous,
     wait_for_callback_explicit_name, wait_for_callback_external_failure,
     wait_for_callback_heartbeat_then_success,
     wait_for_callback_heartbeat_timeout, wait_for_callback_json_result,
     wait_for_callback_null_result, wait_for_callback_timeout,
     wait_for_callback_failure_caught, wait_for_callback_timeout_caught,
     wait_for_callback_in_child_context, wait_for_callback_mixed_ops,
     wait_for_callback_submitter_retry_exhaustion,
     wait_for_callback_two_sequential}

----------------------------------------------------------------------------
(* wait_for_condition/: where the threshold is the event, for every event   *)
(* between 1 and 2.  A polling strategy that raises ends the step as a      *)
(* check that raises does.                                                  *)

wait_for_condition_basic(threshold) == <<Polling(threshold)>>
wait_for_condition_fixed_delay(threshold) == wait_for_condition_basic(threshold)
wait_for_condition_with_name(threshold) == wait_for_condition_basic(threshold)
\* The state starts at 5.
wait_for_condition_custom_initial_state(threshold) ==
    <<Polling(IF threshold > 6 THEN threshold - 5 ELSE 1)>>
wait_for_condition_then_step(threshold) == <<Polling(threshold), Succeeding>>
wait_for_condition_immediate == <<Polling(1)>>
wait_for_condition_null_result == wait_for_condition_immediate
wait_for_condition_complex_object == <<Polling(2)>>
wait_for_condition_custom_serdes == wait_for_condition_complex_object
wait_for_condition_multiple_sequential == <<Polling(2), Polling(2)>>
wait_for_condition_check_throws == <<Condition(<<"user">>)>>
wait_for_condition_check_throws_caught == <<Catching(AnyError, Condition(<<"user">>))>>
wait_for_condition_max_attempts == <<Condition(<<"again", "again", "user">>)>>

WaitForConditionHandlers ==
    UNION {{wait_for_condition_basic(n), wait_for_condition_fixed_delay(n),
            wait_for_condition_with_name(n), wait_for_condition_then_step(n),
            wait_for_condition_custom_initial_state(n + 5)} : n \in 1 .. 2}
    \cup {wait_for_condition_immediate, wait_for_condition_null_result,
          wait_for_condition_complex_object, wait_for_condition_custom_serdes,
          wait_for_condition_multiple_sequential, wait_for_condition_check_throws,
          wait_for_condition_check_throws_caught, wait_for_condition_max_attempts}

Handlers ==
    StepHandlers \cup WaitHandlers \cup ChildHandlers \cup CallbackHandlers
    \cup InvokeHandlers \cup WaitForCallbackHandlers \cup WaitForConditionHandlers
=============================================================================
