----------------------------- MODULE MCTerminal -----------------------------
\* A body of two operations and the scopes it may run in.
EXTENDS Terminal

Scope == [terminal |-> TRUE, policy |-> {}, waits |-> {2}, failsAt |-> None,
          encodes |-> TRUE, large |-> FALSE, siblings |-> TRUE, abandon |-> None]

\* A scope that succeeds, one whose body raises, one whose result cannot be
\* encoded, two the application cancels, and a plain child with a large result.
MCConfigs ==
    {Scope,
     [Scope EXCEPT !.failsAt = 2, !.waits = {1}],
     [Scope EXCEPT !.encodes = FALSE],
     [Scope EXCEPT !.abandon = 2],
     [Scope EXCEPT !.abandon = 2, !.policy = Phases, !.siblings = FALSE],
     [Scope EXCEPT !.terminal = FALSE, !.large = TRUE]}

\* Cancellation runs actions, and a sibling suspends the handler.
MCSuspended == {[Scope EXCEPT !.policy = {"CLEANUP"}]}

\* A terminal scope with a large result.
MCLarge == {[Scope EXCEPT !.large = TRUE]}
=============================================================================
