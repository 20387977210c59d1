------------------------------ MODULE MCRunner ------------------------------
(* Handlers that wait for two callbacks, for a callback and two timers, for a *)
(* chained invocation with and without a registered result; timeouts shorter  *)
(* and longer than the heartbeat and than the wait.                           *)
EXTENDS Runner, TLC

CONSTANTS c1, c2, w1, w2, i1

MCCallbacks == {c1, c2}
MCWaits == {w1, w2}
MCInvokes == {i1}

Plan(ops, t1, b1, t2, b2, m) ==
    [ops |-> ops, wait |-> (w1 :> 1 @@ w2 :> 2), timeout |-> (c1 :> t1 @@ c2 :> t2),
     beat |-> (c1 :> b1 @@ c2 :> b2), mocked |-> m]

MCConfigs ==
    {Plan({c1, c2}, 2, 0, 3, 2, {}), Plan({c1, c2}, 0, 1, 1, 0, {}),
     Plan({c1, w1, w2}, 2, 0, 0, 0, {}), Plan({c2, w1, i1}, 0, 0, 2, 1, {i1}),
     Plan({c1, i1}, 3, 1, 0, 0, {})}
=============================================================================
