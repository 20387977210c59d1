---------------------------- MODULE GroupHandlers ----------------------------
(***************************************************************************)
(* The groups that the handlers of the conformance suite and of the         *)
(* examples start, each named after its file: the bounds, the policy, and   *)
(* what the branches do.  What a handler does with the report, and the      *)
(* codecs, names and values of its branches, are left out.                  *)
(***************************************************************************)
EXTENDS Naturals, Sequences

CONSTANT None

\* A branch: whether it suspends first, for a wait or a retry of its step, and
\* how it ends.
ok == [fate |-> "SUCCEEDED", waits |-> FALSE]
fail == [fate |-> "FAILED", waits |-> FALSE]
later(branch) == [branch EXCEPT !.waits = TRUE]

\* parallel() and map() with the default policy and no limit.
Group(branches) ==
    [config |-> [nested |-> TRUE, limit |-> IF branches = <<>> THEN 1 ELSE Len(branches),
                 min |-> None, tolerated |-> 0, custom |-> FALSE],
     fate |-> [i \in DOMAIN branches |-> branches[i].fate],
     waits |-> [i \in DOMAIN branches |-> branches[i].waits]]
Bounded(n, group) == [group EXCEPT !.config.limit = n]
Flat(group) == [group EXCEPT !.config.nested = FALSE]
MinSuccessful(n, group) == [group EXCEPT !.config.min = n]
Tolerating(n, group) == [group EXCEPT !.config.tolerated = n]
\* A callback that completes at so many successes or so many failures.
Custom(successes, failures, group) ==
    [group EXCEPT !.config.custom = TRUE, !.config.min = successes,
                  !.config.tolerated = failures]

----------------------------------------------------------------------------
(* conformance/parallel                                                    *)

parallel_basic == Bounded(1, Group(<<ok, ok>>))
parallel_branches_only == parallel_basic
parallel_named_branches == parallel_basic
parallel_custom_serde == parallel_basic
parallel_concurrent == Bounded(2, Group(<<ok, ok, ok>>))
parallel_heterogeneous == Bounded(1, Group(<<ok, ok, ok>>))
parallel_flat == Flat(parallel_basic)
parallel_empty == Group(<<>>)
\* The one branch of the outer group holds parallel_basic.
parallel_nested == Bounded(1, Group(<<ok>>))
parallel_replay_skips_succeeded == Bounded(1, Group(<<ok, later(ok)>>))
parallel_accessors == Tolerating(1, Bounded(1, Group(<<ok, fail, ok>>)))
parallel_tolerated_within == parallel_accessors
parallel_all_fail == Tolerating(3, Bounded(1, Group(<<fail, fail, fail>>)))
parallel_fail_fast == Bounded(1, Group(<<ok, fail, ok>>))
parallel_throw_if_error == Bounded(1, Group(<<fail, ok>>))
parallel_tolerated_exceeded == Tolerating(1, Bounded(1, Group(<<fail, fail, ok>>)))
parallel_tolerated_pct == Tolerating(1, Bounded(1, Group(<<fail, fail, ok, ok>>)))
parallel_pct_boundary == Tolerating(1, Bounded(1, Group(<<fail, ok, ok, ok>>)))
parallel_min_successful == MinSuccessful(2, Bounded(1, Group(<<ok, ok, ok, ok>>)))
parallel_min_not_reached == MinSuccessful(3, Tolerating(3, parallel_fail_fast))
parallel_combined_config == MinSuccessful(3, parallel_tolerated_pct)

(* conformance/map: items that the function fails on                       *)

map_basic == Bounded(1, Group(<<ok, ok>>))
map_custom_serde == map_basic
map_item_namer == map_basic
map_items_only == map_basic
map_op_serde == map_basic
map_op_serde_replay == map_basic
map_then_wait == map_basic
map_item_index == Bounded(1, Group(<<ok, ok, ok>>))
map_concurrent == Bounded(2, Group(<<ok, ok, ok>>))
map_large_result == Bounded(1, Group(<<ok, ok, ok, ok>>))
map_min_successful == MinSuccessful(2, map_large_result)
map_flat == Flat(map_basic)
map_empty == Group(<<>>)
map_suspend_iteration == Bounded(1, Group(<<ok, later(ok)>>))
map_fail_fast == Bounded(1, Group(<<ok, fail, ok>>))
map_throw_if_error == Bounded(1, Group(<<fail, ok>>))
map_fail_then_wait == Tolerating(1, Bounded(1, Group(<<ok, fail>>)))
map_tolerated_within == Tolerating(1, map_fail_fast)
map_tolerated_exceeded == Tolerating(1, Bounded(1, Group(<<fail, fail, ok>>)))
map_tolerated_pct == Tolerating(1, Bounded(1, Group(<<fail, fail, ok, ok>>)))

ConformanceGroups ==
    {parallel_basic, parallel_branches_only, parallel_named_branches,
     parallel_custom_serde, parallel_concurrent, parallel_heterogeneous,
     parallel_flat, parallel_empty, parallel_nested,
     parallel_replay_skips_succeeded, parallel_accessors,
     parallel_tolerated_within, parallel_all_fail, parallel_fail_fast,
     parallel_throw_if_error, parallel_tolerated_exceeded,
     parallel_tolerated_pct, parallel_pct_boundary, parallel_min_successful,
     parallel_min_not_reached, parallel_combined_config,
     map_basic, map_custom_serde, map_item_namer, map_items_only, map_op_serde,
     map_op_serde_replay, map_then_wait, map_item_index, map_concurrent,
     map_large_result, map_min_successful, map_flat, map_empty,
     map_suspend_iteration, map_fail_fast, map_throw_if_error,
     map_fail_then_wait, map_tolerated_within, map_tolerated_exceeded,
     map_tolerated_pct}

----------------------------------------------------------------------------
(* examples/: those with at most five branches                             *)

parallel_operation == Bounded(2, Group(<<ok, ok, later(ok)>>))
parallel_operation_flat == Flat(parallel_operation)
parallel_first_successful == MinSuccessful(1, Group(<<ok, ok, ok>>))
parallel_with_batch_serdes == Group(<<ok, ok, ok>>)
parallel_with_custom_serdes == Group(<<ok, ok, ok>>)
parallel_with_wait == Group(<<later(ok), later(ok), later(ok)>>)
parallel_with_max_concurrency == Bounded(2, Group(<<ok, ok, ok, ok, ok>>))
parallel_with_bound_callables == Bounded(3, Group(<<ok, ok, ok, ok, ok>>))
parallel_with_failure_tolerance == Tolerating(2, Group(<<ok, fail, ok, fail, ok>>))
callback_concurrency == Group(<<later(ok), later(ok), later(ok)>>)
map_operations == Bounded(2, Group(<<ok, ok, ok, ok, ok>>))
map_operations_flat == Flat(map_operations)
map_with_batch_serdes == Group(<<ok, ok, ok, ok>>)
map_with_custom_serdes == Group(<<ok, ok, ok>>)
map_with_item_namer == Bounded(2, Group(<<ok, ok, ok>>))
\* A step that fails is tried twice.
map_completion ==
    MinSuccessful(2, Tolerating(2, Bounded(3,
        Group(<<ok, later(fail), ok, later(fail), ok>>))))
\* The providers of the event, bad ones included.
map_with_custom_should_complete(providers) ==
    Custom(2, 2, Bounded(1, Group(providers)))

ExampleGroups ==
    {parallel_operation, parallel_operation_flat, parallel_first_successful,
     parallel_with_batch_serdes, parallel_with_custom_serdes,
     parallel_with_wait, parallel_with_max_concurrency,
     parallel_with_bound_callables, parallel_with_failure_tolerance,
     callback_concurrency, map_operations, map_operations_flat,
     map_with_batch_serdes, map_with_custom_serdes, map_with_item_namer,
     map_completion}
    \cup {map_with_custom_should_complete(p) : p \in [1 .. 3 -> {ok, fail}]}
=============================================================================
