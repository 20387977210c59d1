------------------------------ MODULE MCGroups ------------------------------
(* Groups of three branches with two slots, whatever the branches do: the    *)
(* default policy, two successes with a tolerated failure, and all failures  *)
(* tolerated.  Branches that break a group, beside others that succeed, fail *)
(* and break.  And the groups of the conformance suite and the examples.     *)
EXTENDS Groups

H == INSTANCE GroupHandlers

Policies == {H!Group(<<>>).config, [H!Group(<<>>).config EXCEPT !.min = 2, !.tolerated = 1],
             [H!Group(<<>>).config EXCEPT !.tolerated = 3]}

Of(fates) ==
    {[config |-> [p EXCEPT !.limit = 2, !.nested = n], fate |-> f, waits |-> w] :
        p \in Policies, n \in BOOLEAN, f \in fates, w \in [1 .. 3 -> BOOLEAN]}

Free == Of([1 .. 3 -> {"SUCCEEDED", "FAILED"}])
Broken == Of({<<"SUCCEEDED", "SERDES", "SUCCEEDED">>, <<"FAILED", "PERMANENT", "SUCCEEDED">>,
              <<"SERDES", "SUCCEEDED", "PERMANENT">>})

MCWorkloads == Free \cup Broken \cup H!ConformanceGroups \cup H!ExampleGroups
=============================================================================
